---- MODULE Spec2Model ----
(***************************************************************************)
(* Model of the beamforming core: the dynamic beamforming loop             *)
(* (runFrame, the scanline generators, the three dynamic beamformers and   *)
(* their fractional-sample interpolation), the scanline geometry helpers   *)
(* and the apodization windows.                                            *)
(*                                                                         *)
(* JavaScript numbers are modelled as extended numbers: NaN, +Infinity,    *)
(* -Infinity, or a finite value r + t*EPS where r and t are exact          *)
(* rationals <<numerator, denominator>> and EPS stands for 5e-13, so that  *)
(* the interpolation tolerance 1e-12 is the number 0 + 2*EPS.  Finite      *)
(* arithmetic is exact (no rounding); terms in EPS^2 are dropped.  Arrays  *)
(* are functions over 0..n-1.                                              *)
(***************************************************************************)
EXTENDS Integers, Sequences, FiniteSets, TLC

(***************************************************************************)
(* Exact rationals <<n, d>> with d > 0, kept in lowest terms.              *)
(***************************************************************************)
IAbs(x) == IF x < 0 THEN -x ELSE x

RECURSIVE GCD(_, _)
GCD(a, b) == IF b = 0 THEN a ELSE GCD(b, a % b)

RNorm(n, d) ==
  LET g == GCD(IAbs(n), IAbs(d))
      s == IF d < 0 THEN -1 ELSE 1
  IN  IF n = 0 THEN <<0, 1>> ELSE <<s * (n \div g), s * (d \div g)>>

RZero == <<0, 1>>
ROne == <<1, 1>>
RInt(i) == <<i, 1>>
RNeg(a) == <<-a[1], a[2]>>
RAdd(a, b) ==
  LET g == GCD(a[2], b[2])
  IN  RNorm(a[1] * (b[2] \div g) + b[1] * (a[2] \div g), (a[2] \div g) * b[2])
RSub(a, b) == RAdd(a, RNeg(b))
RMul(a, b) ==
  LET g1 == GCD(IAbs(a[1]), b[2])
      g2 == GCD(IAbs(b[1]), a[2])
  IN  IF a[1] = 0 \/ b[1] = 0 THEN RZero
      ELSE <<(a[1] \div g1) * (b[1] \div g2), (a[2] \div g2) * (b[2] \div g1)>>
RInv(a) == IF a[1] < 0 THEN <<-a[2], -a[1]>> ELSE <<a[2], a[1]>>
RDiv(a, b) == RMul(a, RInv(b))
RSign(a) == IF a[1] > 0 THEN 1 ELSE IF a[1] < 0 THEN -1 ELSE 0
RLt(a, b) == RSign(RSub(a, b)) < 0
RLe(a, b) == RSign(RSub(a, b)) <= 0
RFloor(a) == a[1] \div a[2]
RIsInt(a) == a[2] = 1

(***************************************************************************)
(* Extended numbers (IEEE-754 special values, exact finite part).          *)
(***************************************************************************)
Num(r, t) == [k |-> "fin", r |-> r, t |-> t]
Fin(r) == Num(r, RZero)
Int2Num(i) == Fin(RInt(i))
NaN == [k |-> "nan", r |-> RZero, t |-> RZero]
PInf == [k |-> "pinf", r |-> RZero, t |-> RZero]
NInf == [k |-> "ninf", r |-> RZero, t |-> RZero]
Tiny(i) == Num(RZero, RInt(i))

IsFin(a) == a.k = "fin"
\* the value `undefined` (a read past the end of an array) coerces to NaN in arithmetic
Undefined == [k |-> "undef", r |-> RZero, t |-> RZero]
IsNaN(a) == a.k \in {"nan", "undef"}
IsInf(a) == a.k \in {"pinf", "ninf"}

\* -1, 0 or 1 for a number that is not NaN
NSign(a) ==
  CASE a.k = "pinf" -> 1
    [] a.k = "ninf" -> -1
    [] OTHER -> IF RSign(a.r) # 0 THEN RSign(a.r) ELSE RSign(a.t)

InfOfSign(s) == IF s < 0 THEN NInf ELSE PInf

NNeg(a) ==
  CASE IsNaN(a) -> NaN
    [] a.k = "pinf" -> NInf
    [] a.k = "ninf" -> PInf
    [] OTHER -> Num(RNeg(a.r), RNeg(a.t))

NAdd(a, b) ==
  CASE IsNaN(a) \/ IsNaN(b) -> NaN
    [] IsInf(a) /\ IsInf(b) -> IF a.k = b.k THEN a ELSE NaN
    [] IsInf(a) -> a
    [] IsInf(b) -> b
    [] OTHER -> Num(RAdd(a.r, b.r), RAdd(a.t, b.t))

NSub(a, b) == NAdd(a, NNeg(b))

NMul(a, b) ==
  CASE IsNaN(a) \/ IsNaN(b) -> NaN
    [] IsInf(a) \/ IsInf(b) ->
         IF NSign(a) = 0 \/ NSign(b) = 0 THEN NaN
         ELSE InfOfSign(NSign(a) * NSign(b))
    [] OTHER -> Num(RMul(a.r, b.r), RAdd(RMul(a.r, b.t), RMul(a.t, b.r)))

\* A finite divisor is a rational (its EPS part is 0 wherever the code divides);
\* zero is +0, so x/0 is NaN for x = 0 and an infinity of x's sign otherwise.
NDiv(a, b) ==
  CASE IsNaN(a) \/ IsNaN(b) -> NaN
    [] IsInf(a) /\ IsInf(b) -> NaN
    [] IsInf(a) -> InfOfSign(NSign(a) * (IF NSign(b) < 0 THEN -1 ELSE 1))
    [] IsInf(b) -> Fin(RZero)
    [] NSign(b) = 0 -> IF NSign(a) = 0 THEN NaN ELSE InfOfSign(NSign(a))
    [] OTHER -> Num(RDiv(a.r, b.r), RDiv(a.t, b.r))

\* Comparisons: every comparison with NaN is false
NLt(a, b) ==
  /\ ~IsNaN(a) /\ ~IsNaN(b)
  /\ CASE a.k = "pinf" -> FALSE
       [] b.k = "ninf" -> FALSE
       [] a.k = "ninf" -> TRUE
       [] b.k = "pinf" -> TRUE
       [] OTHER -> \/ RLt(a.r, b.r)
                   \/ (a.r = b.r /\ RLt(a.t, b.t))
NEq(a, b) == ~IsNaN(a) /\ ~IsNaN(b) /\ a = b
NLe(a, b) == NLt(a, b) \/ NEq(a, b)
NGt(a, b) == NLt(b, a)
NGe(a, b) == NLe(b, a)

NAbs(a) == IF IsNaN(a) THEN NaN ELSE IF NSign(a) < 0 THEN NNeg(a) ELSE a

\* Math.floor
MathFloor(a) ==
  CASE ~IsFin(a) -> a
    [] RIsInt(a.r) /\ RSign(a.t) < 0 -> Int2Num(a.r[1] - 1)
    [] OTHER -> Int2Num(RFloor(a.r))


(***************************************************************************)
(* Math.PI, Math.sin, Math.cos.  PI is a rational and the sine of x is     *)
(* Bhaskara's rational approximation in u = x/PI (exact at the multiples   *)
(* of 30 degrees: 0, 1/2, 1), so that angles given in degrees or in        *)
(* fractions of a turn have exact rational sines and cosines.  Like a      *)
(* double, a sine has finite resolution: it is a multiple of 1/TrigGrid.   *)
(***************************************************************************)
PI == <<22, 7>>

TrigGrid == 64

Bhaskara(u) ==
  LET p == RMul(u, RSub(ROne, u))
      exact == RDiv(RMul(RInt(16), p), RSub(RInt(5), RMul(RInt(4), p)))
  IN  RNorm(RFloor(RMul(exact, RInt(TrigGrid))), TrigGrid)

\* sine of u half-turns (u * PI radians)
SinHalfTurns(u) ==
  LET v == RSub(u, RInt(2 * RFloor(RDiv(u, RInt(2)))))
  IN  IF RLe(v, ROne) THEN Bhaskara(v) ELSE RNeg(Bhaskara(RSub(v, ROne)))

MathSin(x) == IF ~IsFin(x) THEN NaN ELSE Fin(SinHalfTurns(RDiv(x.r, PI)))
MathCos(x) == IF ~IsFin(x) THEN NaN ELSE Fin(SinHalfTurns(RAdd(RDiv(x.r, PI), <<1, 2>>)))


\* Math.tan
MathTan(x) == NDiv(MathSin(x), MathCos(x))

\* largest k in lo..hi with k * k <= m
RECURSIVE ISqrtIn(_, _, _)
ISqrtIn(m, lo, hi) ==
  IF lo >= hi THEN lo
  ELSE LET mid == (lo + hi + 1) \div 2
       IN  IF mid * mid <= m THEN ISqrtIn(m, mid, hi) ELSE ISqrtIn(m, lo, mid - 1)

\* Math.sqrt of a rational, rounded down to a multiple of 1/SqrtGrid
SqrtGrid == 8

MathSqrt(x) ==
  CASE IsNaN(x) -> NaN
    [] x.k = "pinf" -> PInf
    [] NSign(x) < 0 -> NaN
    [] OTHER -> LET m == RFloor(RMul(x.r, RInt(SqrtGrid * SqrtGrid)))
                IN  Fin(RNorm(ISqrtIn(m, 0, 46340), SqrtGrid))

\* Math.log10 of a positive rational r: the whole part k with 10^k <= r < 10^(k+1)
\* and a mantissa interpolated linearly between the powers of ten (exact at
\* every power of ten, increasing everywhere)
RECURSIVE Log10From(_, _)
Log10From(r, k) ==
  IF RLt(r, ROne) THEN Log10From(RMul(r, RInt(10)), k - 1)
  ELSE IF RLe(RInt(10), r) THEN Log10From(RDiv(r, RInt(10)), k + 1)
  ELSE RAdd(RInt(k), RDiv(RSub(r, ROne), RInt(9)))

MathLog10(x) ==
  CASE IsNaN(x) -> NaN
    [] x.k = "pinf" -> PInf
    [] NSign(x) < 0 -> NaN
    [] NSign(x) = 0 -> NInf
    [] OTHER -> Fin(Log10From(x.r, 0))

(***************************************************************************)
(* Arrays: functions over 0..n-1.  Reading an index that is not an own     *)
(* index of the array gives `undefined`.                                   *)
(***************************************************************************)
Length(arr) == Cardinality(DOMAIN arr)
EmptyArray == [i \in {} |-> NaN]
ArrayFill(n, v) == [i \in 0..(n - 1) |-> v]

IsIndexOf(arr, i) ==
  IsFin(i) /\ RIsInt(i.r) /\ i.t = RZero /\ i.r[1] \in DOMAIN arr

(***************************************************************************)
(* dynamic/types.ts and dynamic/util.ts                                    *)
(***************************************************************************)
elementPositionMeters(index, array) ==
  LET center == NDiv(Int2Num(array.elements - 1), Int2Num(2))
  IN  NMul(NSub(Int2Num(index), center), array.elementSpacing)

\* interpolation over numScanLines steps instead of numScanLines - 1
scanlineParamOverCount(cfg, scanlineIndex) ==
  LET numScanLines == cfg.scanning.numScanLines
      minVal == cfg.scanning.range[1]
      maxVal == cfg.scanning.range[2]
      t == NDiv(Int2Num(scanlineIndex), Int2Num(numScanLines))
  IN  IF numScanLines <= 1 THEN NDiv(NAdd(minVal, maxVal), Int2Num(2))
      ELSE NAdd(minVal, NMul(t, NSub(maxVal, minVal)))

scanlineParam(cfg, scanlineIndex) ==
  LET numScanLines == cfg.scanning.numScanLines
      minVal == cfg.scanning.range[1]
      maxVal == cfg.scanning.range[2]
      t == NDiv(Int2Num(scanlineIndex), Int2Num(numScanLines - 1))
  IN  IF numScanLines <= 1 THEN NDiv(NAdd(minVal, maxVal), Int2Num(2))
      ELSE NAdd(minVal, NMul(t, NSub(maxVal, minVal)))

(***************************************************************************)
(* Fractional-sample interpolation.  A call either returns a number or     *)
(* throws a TypeError (reading a property of matrix[s0] = undefined).      *)
(***************************************************************************)
TypeError == [k |-> "throw", r |-> RZero, t |-> RZero]
Threw(x) == x.k = "throw"

\* half the tolerance: 0.5e-12
FracTolHalf == Tiny(1)

\* 1e-12
FracTol == Tiny(2)

\* an interpolation that gives 0 when the upper neighbour is out of bounds
sampleRowLinearZeroEdge(matrix, elementIndex, sampleIndex) ==
  LET s0 == MathFloor(sampleIndex)
      frac == NSub(sampleIndex, s0)
      s1 == NAdd(s0, Int2Num(1))
      len == Int2Num(Length(matrix))
      in(s) == NGe(s, Int2Num(0)) /\ NLt(s, len) /\ IsIndexOf(matrix, s)
      at(s) == matrix[s.r[1]][elementIndex]
  IN  IF ~in(s0) THEN Int2Num(0)
      ELSE IF NLe(frac, FracTol) THEN at(s0)
      ELSE IF ~in(s1) THEN Int2Num(0)
      ELSE NAdd(NMul(at(s0), NSub(Int2Num(1), frac)), NMul(at(s1), frac))

\* delay-sum.ts
sampleRowLinear(matrix, elementIndex, sampleIndex) ==
  LET s0 == MathFloor(sampleIndex)
      frac == NSub(sampleIndex, s0)
      s1 == NAdd(s0, Int2Num(1))
      len == Int2Num(Length(matrix))
  IN  IF NLt(s0, Int2Num(0)) \/ NGe(s0, len) THEN Int2Num(0)
      ELSE IF ~IsIndexOf(matrix, s0) THEN TypeError
      ELSE LET row0 == IF elementIndex \in DOMAIN matrix[s0.r[1]]
                       THEN matrix[s0.r[1]][elementIndex] ELSE Undefined
           IN  IF NLe(frac, FracTol) THEN row0
               ELSE IF NLt(s1, Int2Num(0)) \/ NGe(s1, len) THEN row0
               ELSE IF ~IsIndexOf(matrix, s1) THEN TypeError
               ELSE LET row1 == IF elementIndex \in DOMAIN matrix[s1.r[1]]
                                THEN matrix[s1.r[1]][elementIndex] ELSE Undefined
                    IN  NAdd(NMul(row0, NSub(Int2Num(1), frac)), NMul(row1, frac))

\* delay-sum-apodized.ts: its own copy of the function
sampleRowLinearApodized(matrix, elementIndex, sampleIndex) ==
  LET s0 == MathFloor(sampleIndex)
      frac == NSub(sampleIndex, s0)
      s1 == NAdd(s0, Int2Num(1))
      len == Int2Num(Length(matrix))
  IN  IF NLt(s0, Int2Num(0)) \/ NGe(s0, len) THEN Int2Num(0)
      ELSE IF ~IsIndexOf(matrix, s0) THEN TypeError
      ELSE LET row0 == IF elementIndex \in DOMAIN matrix[s0.r[1]]
                       THEN matrix[s0.r[1]][elementIndex] ELSE Undefined
           IN  IF NLe(frac, FracTol) THEN row0
               ELSE IF NLt(s1, Int2Num(0)) \/ NGe(s1, len) THEN row0
               ELSE IF ~IsIndexOf(matrix, s1) THEN TypeError
               ELSE LET row1 == IF elementIndex \in DOMAIN matrix[s1.r[1]]
                                THEN matrix[s1.r[1]][elementIndex] ELSE Undefined
                    IN  NAdd(NMul(row0, NSub(Int2Num(1), frac)), NMul(row1, frac))

(***************************************************************************)
(* profile/windows.ts                                                      *)
(***************************************************************************)
rectangularWindow(N) == ArrayFill(N, Int2Num(1))

hammingWindow(N) ==
  LET a0 == Fin(<<27, 50>>)
      a1 == NSub(Int2Num(1), a0)
      M == N - 1
  IN  IF N <= 1 THEN ArrayFill(1, Int2Num(1))
      ELSE [n \in 0..(N - 1) |->
             NSub(a0, NMul(a1, MathCos(NDiv(NMul(NMul(Int2Num(2), Fin(PI)), Int2Num(n)),
                                            Int2Num(M)))))]

triangularWindow(N) ==
  LET M == N - 1
  IN  IF N <= 1 THEN ArrayFill(1, Int2Num(1))
      ELSE [n \in 0..(N - 1) |->
             NSub(Int2Num(1),
                  NAbs(NDiv(NSub(Int2Num(n), NDiv(Int2Num(M), Int2Num(2))),
                            NDiv(Int2Num(M), Int2Num(2)))))]

\* Math.max(...w.map(v => Math.abs(v))): NaN if any entry is NaN
RECURSIVE MaxAbsUpTo(_, _)
MaxAbsUpTo(w, i) ==
  IF i < 0 THEN NInf
  ELSE LET m == MaxAbsUpTo(w, i - 1)
           v == NAbs(w[i])
       IN  IF IsNaN(m) \/ IsNaN(v) THEN NaN ELSE IF NGt(v, m) THEN v ELSE m

MaxAbs(w) == MaxAbsUpTo(w, Length(w) - 1)

(* The Dolph-Chebyshev kernel: the window before normalisation, i.e. the   *)
(* inverse cosine transform of the sampled Chebyshev polynomial (the       *)
(* transcendental part of chebyshevWindow).  Its values at the sizes and   *)
(* sidelobe levels of this model are the ones the code computes in double  *)
(* precision, rounded to 4 decimals; entry n of row N is 10000 * w[n].     *)
ChebyshevKernelTable(db) ==
  CASE db = 20 -> [N \in 2..8 |->
         CASE N = 2 -> <<5000, 5000>>
           [] N = 3 -> <<3333, 3333, 3333>>
           [] N = 4 -> <<3451, 2500, 1549, 2500>>
           [] N = 5 -> <<2732, 2226, 1408, 1408, 2226>>
           [] N = 6 -> <<2230, 1957, 1385, 1085, 1385, 1957>>
           [] N = 7 -> <<1898, 1712, 1317, 1022, 1022, 1317, 1712>>
           [] N = 8 -> <<1622, 1538, 1225, 962, 928, 962, 1225, 1538>>]
    [] db = 30 -> [N \in 2..8 |->
         CASE N = 2 -> <<5000, 5000>>
           [] N = 3 -> <<3333, 3333, 3333>>
           [] N = 4 -> <<3913, 2500, 1087, 2500>>
           [] N = 5 -> <<3209, 2374, 1022, 1022, 2374>>
           [] N = 6 -> <<2633, 2211, 1183, 579, 1183, 2211>>
           [] N = 7 -> <<2256, 1990, 1281, 601, 601, 1281, 1990>>
           [] N = 8 -> <<1980, 1783, 1297, 717, 427, 717, 1297, 1783>>]
    [] db = 40 -> [N \in 2..8 |->
         CASE N = 2 -> <<5000, 5000>>
           [] N = 3 -> <<3333, 3333, 3333>>
           [] N = 4 -> <<4108, 2500, 892, 2500>>
           [] N = 5 -> <<3443, 2446, 833, 833, 2446>>
           [] N = 6 -> <<2902, 2318, 1049, 364, 1049, 2318>>
           [] N = 7 -> <<2517, 2131, 1205, 405, 405, 1205, 2131>>
           [] N = 8 -> <<2228, 1941, 1274, 559, 225, 559, 1274, 1941>>]

\* the least whole sidelobeDb for which A = Math.pow(10, sidelobeDb / 20) is Infinity
\* (A exceeds the largest double, about 1.8e308)
PowOverflowDb == 6166

\* the least whole sidelobeDb for which A * A is Infinity although A is finite
\* (A exceeds about 1.34e154): then acosh(A) = log(A + sqrt(A * A - 1)) is
\* Infinity, so are beta and TMbeta, and every Y[k] = Tm(...) / TMbeta is
\* Infinity / Infinity = NaN
SquareOverflowDb == 3083

ChebyshevKernel(N, sidelobeDb) ==
  IF NGe(sidelobeDb, Int2Num(SquareOverflowDb)) THEN ArrayFill(N, NaN)
  ELSE [n \in 0..(N - 1) |->
          Fin(RNorm(ChebyshevKernelTable(sidelobeDb.r[1])[N][n + 1], 10000))]

\* A = Math.pow(10, sidelobeDb / 20) is not finite, or A <= 1
ChebyshevDegenerate(sidelobeDb) ==
  \/ ~IsFin(sidelobeDb)
  \/ NLe(sidelobeDb, Int2Num(0))
  \/ NGe(sidelobeDb, Int2Num(PowOverflowDb))

\* the loop that sets wc[i] = wc[N - 1 - i] = 0.5 * (wc[i] + wc[N - 1 - i])
ChebyshevSymmetrised(N, wc) ==
  LET avg(i) == NMul(Fin(<<1, 2>>), NAdd(wc[i], wc[N - 1 - i]))
  IN  [i \in 0..(N - 1) |->
        IF i < N \div 2 THEN avg(i)
        ELSE IF N - 1 - i < N \div 2 THEN avg(N - 1 - i)
        ELSE wc[i]]

\* wc[i] = w[(i + shift) % N] with shift = Math.floor(N / 2)
ChebyshevShifted(N, w) ==
  ChebyshevSymmetrised(N, [i \in 0..(N - 1) |-> w[(i + N \div 2) % N]])

\* if (w[i] < 0) w[i] = 0
ChebyshevClamped(N, w) ==
  ChebyshevShifted(N, [i \in 0..(N - 1) |->
                         IF NLt(w[i], Int2Num(0)) THEN Int2Num(0) ELSE w[i]])

\* w[i] *= inv with inv = maxVal > 0 ? 1 / maxVal : 1
ChebyshevScaled(N, w, maxVal) ==
  ChebyshevClamped(N, [i \in 0..(N - 1) |->
                         NMul(w[i], IF NGt(maxVal, Int2Num(0))
                                    THEN NDiv(Int2Num(1), maxVal) ELSE Int2Num(1))])

ChebyshevOfKernel(N, w) == ChebyshevScaled(N, w, MaxAbs(w))

chebyshevWindow(N, sidelobeDb) ==
  IF N <= 1 THEN ArrayFill(1, Int2Num(1))
  ELSE IF ChebyshevDegenerate(sidelobeDb) THEN ArrayFill(N, Int2Num(1))
  ELSE ChebyshevOfKernel(N, ChebyshevKernel(N, sidelobeDb))

makeWindow(type, N, chebDb) ==
  CASE type = "rectangular" -> rectangularWindow(N)
    [] type = "hamming" -> hammingWindow(N)
    [] type = "triangular" -> triangularWindow(N)
    [] type = "chebyshev" -> chebyshevWindow(N, chebDb)
    [] OTHER -> rectangularWindow(N)

(***************************************************************************)
(* Dynamic beamformers.  A call returns [threw, value, log]: the vector it *)
(* returns (or that it threw a TypeError) and what it wrote to the console.*)
(***************************************************************************)
Returned(v, log) == [threw |-> FALSE, value |-> v, log |-> log]
Thrown(log) == [threw |-> TRUE, value |-> EmptyArray, log |-> log]

\* matrix[s][e] for integer s, e: a TypeError when matrix[s] is undefined
ReadCell(matrix, s, e) ==
  IF s \notin DOMAIN matrix THEN TypeError
  ELSE IF e \notin DOMAIN matrix[s] THEN Undefined
  ELSE matrix[s][e]

\* let acc = 0; for (e = 0; e < elements; e++) acc += term[e]
RECURSIVE Accumulate(_, _)
Accumulate(term, e) ==
  IF e < 0 THEN Int2Num(0) ELSE NAdd(Accumulate(term, e - 1), term[e])

\* the loop over s and e with the per-cell contribution already evaluated
SumRows(contrib, samples, elements, log) ==
  IF \E s \in 0..(samples - 1), e \in 0..(elements - 1) : Threw(contrib[s][e])
  THEN Thrown(log)
  ELSE Returned([s \in 0..(samples - 1) |-> Accumulate(contrib[s], elements - 1)], log)

\* a sum that stops one element early
SumBeamformShort(matrix, scanlineIndex, cfg) ==
  LET samples == cfg.scanning.samples
      elements == cfg.array.elements
  IN  SumRows([s \in 0..(samples - 1) |-> [e \in 0..(elements - 1) |-> ReadCell(matrix, s, e)]],
              samples, elements - 1, <<>>)

\* sum.ts
SumBeamform(matrix, scanlineIndex, cfg) ==
  LET samples == cfg.scanning.samples
      elements == cfg.array.elements
  IN  SumRows([s \in 0..(samples - 1) |-> [e \in 0..(elements - 1) |-> ReadCell(matrix, s, e)]],
              samples, elements, <<>>)

\* shifts[e] = -tau / dt with tau = x * sin(theta) / c
ElementShift(e, scanlineIndex, cfg) ==
  LET thetaDeg == scanlineParam(cfg, scanlineIndex)
      theta == NDiv(NMul(thetaDeg, Fin(PI)), Int2Num(180))
      sinTheta == MathSin(theta)
      x == elementPositionMeters(e, cfg.array)
      tau == NDiv(NMul(x, sinTheta), cfg.propagationSpeed)
  IN  NDiv(NNeg(tau), cfg.timeStep)

\* delay-and-sum without the branch for non-phased scanning
DelayAndSumNoFallback(matrix, scanlineIndex, cfg) ==
  LET samples == cfg.scanning.samples
      elements == cfg.array.elements
  IN  SumRows([s \in 0..(samples - 1) |->
                 [e \in 0..(elements - 1) |->
                    sampleRowLinear(matrix, e,
                      NAdd(Int2Num(s), ElementShift(e, scanlineIndex, cfg)))]],
              samples, elements, <<>>)

\* delay-sum.ts
DelayAndSumBeamform(matrix, scanlineIndex, cfg) ==
  LET samples == cfg.scanning.samples
      elements == cfg.array.elements
  IN  IF cfg.scanning.type # "phased"
      THEN SumRows([s \in 0..(samples - 1) |->
                      [e \in 0..(elements - 1) |-> ReadCell(matrix, s, e)]],
                   samples, elements,
                   <<"DelayAndSum: Only 'phased' scanning is supported currently.">>)
      ELSE SumRows([s \in 0..(samples - 1) |->
                      [e \in 0..(elements - 1) |->
                         sampleRowLinear(matrix, e,
                           NAdd(Int2Num(s), ElementShift(e, scanlineIndex, cfg)))]],
                   samples, elements, <<>>)

\* x ?? d, an optional value being <<>> (undefined) or <<v>>
Nullish(x, d) == IF x = <<>> THEN d ELSE x[1]

\* a contribution that is not scaled
Unweighted(w, e, v) == v

\* weights[e] * v, where weights[e] is undefined past the end of the window
Weighted(w, e, v) ==
  IF Threw(v) THEN v ELSE NMul(IF e \in DOMAIN w THEN w[e] ELSE Undefined, v)

\* delay-sum-apodized.ts
DelayAndSumApodizedBeamform(opts, matrix, scanlineIndex, cfg) ==
  LET windowType == Nullish(opts.windowType, "hamming")
      cheb == Nullish(opts.chebyshevSidelobeDb, Int2Num(30))
      samples == cfg.scanning.samples
      elements == cfg.array.elements
      w == makeWindow(windowType, elements, cheb)
  IN  IF cfg.scanning.type # "phased"
      THEN SumRows([s \in 0..(samples - 1) |->
                      [e \in 0..(elements - 1) |-> Weighted(w, e, ReadCell(matrix, s, e))]],
                   samples, elements,
                   <<"DelayAndSumApodized: Only 'phased' scanning is supported currently.">>)
      ELSE SumRows([s \in 0..(samples - 1) |->
                      [e \in 0..(elements - 1) |->
                         Weighted(w, e,
                           sampleRowLinearApodized(matrix, e,
                             NAdd(Int2Num(s), ElementShift(e, scanlineIndex, cfg))))]],
                   samples, elements, <<>>)

(***************************************************************************)
(* Point-source scanline generators.  Lengths are in millimetres, so the   *)
(* code's z0 = 1e-3 m is 1.                                                *)
(***************************************************************************)
z0 == Int2Num(1)

Square(x) == NMul(x, x)

\* generators/point-source.ts (transmit delay ignored): the value of matrix[s][e]
PointSourceSampleA(config, s, e, cfg) ==
  LET amplitude == Nullish(config.amplitude, Int2Num(1))
      phase0 == Nullish(config.phase0, Int2Num(0))
      dt == cfg.timeStep
      c == cfg.propagationSpeed
      isPhased == cfg.scanning.type = "phased"
      thetaRad == IF isPhased THEN NDiv(NMul(config.offset, Fin(PI)), Int2Num(180))
                  ELSE Int2Num(0)
      xOffset == IF isPhased THEN Int2Num(0) ELSE config.offset
      t == NMul(Int2Num(s), dt)
      z == NAdd(z0, NMul(config.speed, t))
      xCenter == IF isPhased THEN NMul(z, MathTan(thetaRad)) ELSE xOffset
      xElem == elementPositionMeters(e, cfg.array)
      r == MathSqrt(NAdd(Square(NSub(xElem, xCenter)), Square(z)))
      tau == NDiv(r, c)
      omega == NMul(NMul(Int2Num(2), Fin(PI)), config.frequencyHz)
      phase == NAdd(NMul(omega, NSub(t, NMul(Int2Num(2), tau))), phase0)
  IN  NMul(amplitude, MathCos(phase))

\* the second generator (explicit transmit + receive delay): the value of matrix[s][e]
PointSourceSampleB(config, s, e, cfg) ==
  LET amplitude == Nullish(config.amplitude, Int2Num(1))
      phase0 == Nullish(config.phase0, Int2Num(0))
      dt == cfg.timeStep
      c == cfg.propagationSpeed
      isPhased == cfg.scanning.type = "phased"
      thetaRad == IF isPhased THEN NDiv(NMul(config.offset, Fin(PI)), Int2Num(180))
                  ELSE Int2Num(0)
      xOffset == IF isPhased THEN Int2Num(0) ELSE config.offset
      t == NMul(Int2Num(s), dt)
      z == NAdd(z0, NMul(config.speed, t))
      xCenter == IF isPhased THEN NMul(z, MathTan(thetaRad)) ELSE xOffset
      rTx == MathSqrt(NAdd(Square(xCenter), Square(z)))
      tauTx == NDiv(rTx, c)
      omega == NMul(NMul(Int2Num(2), Fin(PI)), config.frequencyHz)
      xElem == elementPositionMeters(e, cfg.array)
      rRx == MathSqrt(NAdd(Square(NSub(xElem, xCenter)), Square(z)))
      tauRx == NDiv(rRx, c)
      phase == NAdd(NMul(omega, NSub(t, NAdd(tauTx, tauRx))), phase0)
  IN  NMul(amplitude, MathCos(phase))

\* a generator whose time origin moves with the scanline
generateScanlineIndexed(config, scanlineIndex, cfg) ==
  [s \in 0..(cfg.scanning.samples - 1) |->
     [e \in 0..(cfg.array.elements - 1) |->
        PointSourceSampleA(config, s + scanlineIndex, e, cfg)]]

\* generateScanline(_scanlineIndex, cfg): the contents of the matrix it fills
generateScanlineA(config, scanlineIndex, cfg) ==
  [s \in 0..(cfg.scanning.samples - 1) |->
     [e \in 0..(cfg.array.elements - 1) |-> PointSourceSampleA(config, s, e, cfg)]]

generateScanlineB(config, scanlineIndex, cfg) ==
  [s \in 0..(cfg.scanning.samples - 1) |->
     [e \in 0..(cfg.array.elements - 1) |-> PointSourceSampleB(config, s, e, cfg)]]

\* computeWeights whose fallback for unusable custom weights is rectangular
computeWeightsRectangularFallback(cfg) ==
  LET N == cfg.elements
      cw == cfg.customWeights
      w == IF cfg.windowType = "custom"
           THEN IF cw # <<>> /\ Length(cw[1]) = N THEN cw[1]
                ELSE makeWindow("rectangular", N, Nullish(cfg.chebyshevSidelobeDb, Int2Num(30)))
           ELSE makeWindow(cfg.windowType, N, Nullish(cfg.chebyshevSidelobeDb, Int2Num(30)))
      maxVal == MaxAbs(w)
  IN  IF NGt(maxVal, Int2Num(0)) THEN [i \in DOMAIN w |-> NDiv(w[i], maxVal)] ELSE w

(***************************************************************************)
(* profile/beamforming.ts: computeWeights                                  *)
(***************************************************************************)
\* a normalisation that is left out unless some weight is positive
NormalisedIfSomePositive(w, maxVal) ==
  IF \E i \in DOMAIN w : NGt(w[i], Int2Num(0))
  THEN [i \in DOMAIN w |-> NDiv(w[i], maxVal)] ELSE w

\* maxVal > 0 ? w.map(v => v / maxVal) : w
NormalisedWeights(w, maxVal) ==
  IF NGt(maxVal, Int2Num(0)) THEN [i \in DOMAIN w |-> NDiv(w[i], maxVal)] ELSE w

WeightsOfWindow(w) == NormalisedWeights(w, MaxAbs(w))

computeWeights(cfg) ==
  WeightsOfWindow(
    IF cfg.windowType = "custom"
    THEN IF cfg.customWeights # <<>> /\ Length(cfg.customWeights[1]) = cfg.elements
         THEN cfg.customWeights[1]
         ELSE makeWindow("hamming", cfg.elements,
                         Nullish(cfg.chebyshevSidelobeDb, Int2Num(30)))
    ELSE makeWindow(cfg.windowType, cfg.elements,
                    Nullish(cfg.chebyshevSidelobeDb, Int2Num(30))))

\* the running sum 0 + terms[0] + ... + terms[n - 1] of a loop over the elements
RECURSIVE SumTerms(_, _)
SumTerms(terms, n) ==
  IF n = 0 THEN Int2Num(0) ELSE NAdd(SumTerms(terms, n - 1), terms[n - 1])

(***************************************************************************)
(* profile/beamforming.ts: spacingMeters, computeDelays                    *)
(***************************************************************************)
spacingMeters(cfg) ==
  LET lambda == NDiv(cfg.waveSpeed, cfg.frequencyHz)
  IN  IF cfg.spacingUnit = "wavelength" THEN NMul(cfg.spacing, lambda) ELSE cfg.spacing

\* theta0 = (cfg.steerAngleDeg * Math.PI) / 180
SteerRadians(cfg) == NDiv(NMul(cfg.steerAngleDeg, Fin(PI)), Int2Num(180))

\* an array centre that is the middle of the element indexes 1..N, not 0..N-1
OffCentre(N) == Fin(RNorm(N, 2))

\* center = (N - 1) / 2
ArrayCentre(N) == Fin(RNorm(N - 1, 2))

\* x = (i - center) * d
ElementX(cfg, i) ==
  NMul(NSub(Int2Num(i), ArrayCentre(cfg.elements)), spacingMeters(cfg))

\* phi = 2 * Math.PI * cfg.frequencyHz * tau
PhaseOf(cfg, tau) == NMul(NMul(NMul(Int2Num(2), Fin(PI)), cfg.frequencyHz), tau)

\* a reference range measured from the first element
ReferenceRangeFromFirst(cfg, xF, zF) ==
  MathSqrt(NAdd(Square(NSub(ElementX(cfg, 0), xF)), Square(zF)))

\* rRef = Math.sqrt((0 - xF) * (0 - xF) + zF * zF)
ReferenceRange(cfg, xF, zF) ==
  MathSqrt(NAdd(NMul(NSub(Int2Num(0), xF), NSub(Int2Num(0), xF)), NMul(zF, zF)))

computeDelays(cfg) ==
  LET N == cfg.elements
      c == cfg.waveSpeed
      theta0 == SteerRadians(cfg)
  IN  IF cfg.focusDepth = <<>> \/ NEq(cfg.focusDepth[1], Int2Num(0))
      THEN LET tau(i) == NDiv(NMul(ElementX(cfg, i), MathSin(theta0)), c)
           IN  [timeDelays |-> [i \in 0..(N - 1) |-> tau(i)],
                phaseRadians |-> [i \in 0..(N - 1) |-> PhaseOf(cfg, tau(i))]]
      ELSE LET focusDepth == cfg.focusDepth[1]
               xF == NMul(focusDepth, MathSin(theta0))
               zF == NMul(focusDepth, MathCos(theta0))
               rRef == ReferenceRange(cfg, xF, zF)
               r(i) == MathSqrt(NAdd(NMul(NSub(ElementX(cfg, i), xF), NSub(ElementX(cfg, i), xF)),
                                     NMul(zF, zF)))
               tau(i) == NDiv(NSub(r(i), rRef), c)
           IN  [timeDelays |-> [i \in 0..(N - 1) |-> tau(i)],
                phaseRadians |-> [i \in 0..(N - 1) |-> PhaseOf(cfg, tau(i))]]

(***************************************************************************)
(* profile/beamforming.ts: computePattern                                  *)
(***************************************************************************)
DegToRad(deg) == NDiv(NMul(deg, Fin(PI)), Int2Num(180))

\* kd = ((2 * Math.PI) / lambda) * d with lambda = cfg.waveSpeed / cfg.frequencyHz
WaveNumberSpacing(cfg) ==
  NMul(NDiv(NMul(Int2Num(2), Fin(PI)), NDiv(cfg.waveSpeed, cfg.frequencyHz)),
       spacingMeters(cfg))

\* psi = (i - center) * kd * (s - s0)
ElementPsi(N, kd, s, s0, i) ==
  NMul(NMul(NSub(Int2Num(i), ArrayCentre(N)), kd), NSub(s, s0))

\* re * re + im * im
SquaredModulus(re, im) == NAdd(NMul(re, re), NMul(im, im))

\* the loop over the elements: re += w[i] * Math.cos(psi); im += w[i] * Math.sin(psi)
ArrayFactor(N, w, kd, s, s0) ==
  SquaredModulus(
    SumTerms([i \in 0..(N - 1) |-> NMul(w[i], MathCos(ElementPsi(N, kd, s, s0, i)))], N),
    SumTerms([i \in 0..(N - 1) |-> NMul(w[i], MathSin(ElementPsi(N, kd, s, s0, i)))], N))

\* I = re * re + im * im of the array factor at sweep angle ang
RawIntensity(cfg, ang) ==
  ArrayFactor(cfg.elements, computeWeights(cfg), WaveNumberSpacing(cfg),
              MathSin(DegToRad(ang)), MathSin(DegToRad(cfg.steerAngleDeg)))

\* a maximum that looks at the first sweep angle only
FirstIntensity(raw) == IF Length(raw) = 0 THEN Int2Num(0) ELSE raw[0]

\* maxI after the first n sweep angles: starts at 0, replaced when I > maxI
RECURSIVE MaxIntensityUpTo(_, _)
MaxIntensityUpTo(raw, n) ==
  IF n = 0 THEN Int2Num(0)
  ELSE LET prev == MaxIntensityUpTo(raw, n - 1)
       IN  IF NGt(raw[n - 1], prev) THEN raw[n - 1] ELSE prev

MaxIntensity(raw) == MaxIntensityUpTo(raw, Length(raw))

\* intensityDb = lin > 0 ? 10 * Math.log10(lin) : -Infinity
PointOfIntensity(angleDeg, lin) ==
  [angleDeg |-> angleDeg, intensityLin |-> lin,
   intensityDb |-> IF NGt(lin, Int2Num(0)) THEN NMul(Int2Num(10), MathLog10(lin)) ELSE NInf]

\* lin = normalized ? (maxI > 0 ? I / maxI : 0) : I
PatternOfIntensities(anglesDeg, raw, maxI, normalized) ==
  [j \in DOMAIN anglesDeg |->
     PointOfIntensity(anglesDeg[j],
                      IF normalized
                      THEN IF NGt(maxI, Int2Num(0)) THEN NDiv(raw[j], maxI) ELSE Int2Num(0)
                      ELSE raw[j])]

PatternOfRaw(anglesDeg, raw, normalized) ==
  PatternOfIntensities(anglesDeg, raw, MaxIntensity(raw), normalized)

computePattern(cfg, anglesDeg, normalized) ==
  PatternOfRaw(anglesDeg, [j \in DOMAIN anglesDeg |-> RawIntensity(cfg, anglesDeg[j])],
               normalized)

(***************************************************************************)
(* pattern-stats.ts: trapezoidalIntegrate, computePatternStats             *)
(***************************************************************************)
ToSeq(arr) == [i \in 1..Length(arr) |-> arr[i - 1]]
ToArray(seq) == [i \in 0..(Len(seq) - 1) |-> seq[i + 1]]

\* Math.max of two numbers
MathMax(a, b) == IF IsNaN(a) \/ IsNaN(b) THEN NaN ELSE IF NLt(a, b) THEN b ELSE a

\* the comparator (a, b) => a.angleDeg - b.angleDeg puts a before b
AngleBefore(a, b) == NLt(NSub(a.angleDeg, b.angleDeg), Int2Num(0))

\* Array.prototype.sort is stable: p goes behind every element it is not before
InsertByAngle(sorted, p) ==
  LET pos == Cardinality({i \in 1..Len(sorted) : ~AngleBefore(p, sorted[i])})
  IN  SubSeq(sorted, 1, pos) \o <<p>> \o SubSeq(sorted, pos + 1, Len(sorted))

RECURSIVE SortSeqByAngle(_, _)
SortSeqByAngle(seq, n) ==
  IF n = 0 THEN <<>> ELSE InsertByAngle(SortSeqByAngle(seq, n - 1), seq[n])

\* pointsIn.slice().sort((a, b) => a.angleDeg - b.angleDeg)
SortedByAngle(pointsIn) == ToArray(SortSeqByAngle(ToSeq(pointsIn), Length(pointsIn)))

trapezoidalIntegrate(x, y) ==
  IF Length(x) # Length(y) \/ Length(x) = 0 THEN Int2Num(0)
  ELSE SumTerms([i \in 0..(Length(x) - 2) |->
                   NMul(NMul(Fin(<<1, 2>>), NAdd(y[i], y[i + 1])), NSub(x[i + 1], x[i]))],
                Length(x) - 1)

Null == [k |-> "null", r |-> RZero, t |-> RZero]

AllNullStats == [pslDb |-> Null, pslLin |-> Null, islrDb |-> Null, fwhmDeg |-> Null]

\* the index of the first largest of vals[0..n-1]
RECURSIVE PeakIdxUpTo(_, _)
PeakIdxUpTo(vals, n) ==
  IF n <= 1 THEN 0
  ELSE LET prev == PeakIdxUpTo(vals, n - 1)
       IN  IF NGt(vals[n - 1], vals[prev]) THEN n - 1 ELSE prev

\* a peak value read from the first point instead of the peak index
FirstValue(vals, peakIdx) == vals[0]

\* peakVal = vals[peakIdx] || 0
PeakValue(vals, peakIdx) ==
  IF IsNaN(vals[peakIdx]) \/ NSign(vals[peakIdx]) = 0 THEN Int2Num(0) ELSE vals[peakIdx]

\* where the while loop of findCross stops
RECURSIVE CrossStop(_, _, _, _)
CrossStop(vals, half, i, dir) ==
  IF i + dir >= 0 /\ i + dir < Length(vals) /\ NGe(vals[i], half)
  THEN CrossStop(vals, half, i + dir, dir) ELSE i

findCross(angles, vals, half, start, dir) ==
  LET j == CrossStop(vals, half, start, dir)
      k == j - dir
  IN  IF k < 0 \/ k >= Length(vals) THEN angles[j]
      ELSE IF NEq(vals[k], vals[j]) THEN angles[k]
      ELSE LET t == NDiv(NSub(half, vals[k]), NSub(vals[j], vals[k]))
           IN  NAdd(angles[k], NMul(t, NSub(angles[j], angles[k])))

\* the first local minimum from index i in direction dir, or null (<<>>)
RECURSIVE NullFrom(_, _, _, _)
NullFrom(angles, vals, i, dir) ==
  IF i > 0 /\ i < Length(vals) - 1
  THEN IF NLe(vals[i], vals[i - 1]) /\ NLe(vals[i], vals[i + 1]) THEN <<angles[i]>>
       ELSE NullFrom(angles, vals, i + dir, dir)
  ELSE <<>>

findNull(angles, vals, startIdx, dir) == NullFrom(angles, vals, startIdx + dir, dir)

\* maxSidelobe over the first n points
RECURSIVE MaxSidelobeUpTo(_, _, _)
MaxSidelobeUpTo(vals, mainMask, n) ==
  IF n = 0 THEN Int2Num(0)
  ELSE LET prev == MaxSidelobeUpTo(vals, mainMask, n - 1)
       IN  IF ~mainMask[n - 1] /\ NGt(vals[n - 1], prev) THEN vals[n - 1] ELSE prev

\* 10 * Math.log10(Number.EPSILON), about -156.5
TenLog10Epsilon == Fin(RNorm(-1565, 10))

\* Number.isFinite(x) ? x : null
FiniteOrNull(x) == IF IsFin(x) THEN x ELSE Null

\* the statistics without the `|| Number.EPSILON` of line 129
StatsOfAreasNoEpsilon(peakVal, fwhm, totalArea, mainArea, maxSidelobe) ==
    LET pslLin == IF NGt(maxSidelobe, Int2Num(0)) THEN maxSidelobe ELSE Int2Num(0)
        pslDb == IF NGt(pslLin, Int2Num(0))
                 THEN NMul(Int2Num(10), MathLog10(NDiv(pslLin, peakVal)))
                 ELSE NInf
        ratio == NDiv(MathMax(Int2Num(0), NSub(totalArea, mainArea)), mainArea)
        islrDb == IF NGt(mainArea, Int2Num(0))
                  THEN NMul(Int2Num(10), MathLog10(ratio))
                  ELSE Null
    IN  [pslDb |-> IF IsFin(pslDb) THEN pslDb ELSE IF pslDb = NInf THEN NInf ELSE Null,
         pslLin |-> pslLin,
         islrDb |-> FiniteOrNull(islrDb),
         fwhmDeg |-> FiniteOrNull(fwhm),
         mainLobeArea |-> mainArea,
         totalArea |-> totalArea]

\* computePatternStats from line 38 on: the statistics of the sorted copy pts
\* psl, islr from the areas and the largest sidelobe (pattern-stats.ts 118-131)
StatsOfAreas(peakVal, fwhm, totalArea, mainArea, maxSidelobe) ==
    LET pslLin == IF NGt(maxSidelobe, Int2Num(0)) THEN maxSidelobe ELSE Int2Num(0)
        pslDb == IF NGt(pslLin, Int2Num(0))
                 THEN NMul(Int2Num(10), MathLog10(NDiv(pslLin, peakVal)))
                 ELSE NInf
        ratio == NDiv(MathMax(Int2Num(0), NSub(totalArea, mainArea)), mainArea)
        islrDb == IF NGt(mainArea, Int2Num(0))
                  THEN IF IsNaN(ratio) \/ NSign(ratio) = 0 THEN TenLog10Epsilon
                       ELSE NMul(Int2Num(10), MathLog10(ratio))
                  ELSE Null
    IN  [pslDb |-> IF IsFin(pslDb) THEN pslDb ELSE IF pslDb = NInf THEN NInf ELSE Null,
         pslLin |-> pslLin,
         islrDb |-> FiniteOrNull(islrDb),
         fwhmDeg |-> FiniteOrNull(fwhm),
         mainLobeArea |-> mainArea,
         totalArea |-> totalArea]

\* mainAngles, mainVals: the samples at the indexes of the main lobe
MainLobeSamples(arr, mainIdx) == [i \in 0..(Len(mainIdx) - 1) |-> arr[mainIdx[i + 1]]]

MainLobeArea(angles, vals, mainIdx) ==
    trapezoidalIntegrate(MainLobeSamples(angles, mainIdx), MainLobeSamples(vals, mainIdx))

MainLobeIndexes(mainMask) ==
    SelectSeq([i \in 1..Length(mainMask) |-> i - 1], LAMBDA i : mainMask[i])

StatsOfMask(angles, vals, peakVal, fwhm, mainMask) ==
    StatsOfAreas(peakVal, fwhm, trapezoidalIntegrate(angles, vals),
                 MainLobeArea(angles, vals, MainLobeIndexes(mainMask)),
                 MaxSidelobeUpTo(vals, mainMask, Length(vals)))

\* a mask that leaves out the points at the boundary angles
MainLobeMaskOpen(angles, leftCross, rightCross) ==
    [i \in 0..(Length(angles) - 1) |->
       NGt(angles[i], leftCross) /\ NLt(angles[i], rightCross)]

MainLobeMask(angles, leftCross, rightCross) ==
    [i \in 0..(Length(angles) - 1) |->
       /\ NGe(angles[i], NSub(leftCross, Tiny(2)))
       /\ NLe(angles[i], NAdd(rightCross, Tiny(2)))]

StatsOfMainLobe(angles, vals, peakVal, leftCross, rightCross) ==
    StatsOfMask(angles, vals, peakVal,
                IF IsFin(leftCross) /\ IsFin(rightCross)
                THEN MathMax(Int2Num(0), NSub(rightCross, leftCross)) ELSE Null,
                MainLobeMask(angles, leftCross, rightCross))

\* an edge that is the null of its own side whenever that side has one
MainLobeEdgePerSide(angles, vals, peakIdx, half, nullLeft, nullRight, dir) ==
    LET edgeIdx == IF dir = -1 THEN 0 ELSE Length(angles) - 1
        null == IF dir = -1 THEN nullLeft ELSE nullRight
    IN  IF null # <<>> THEN null[1]
        ELSE IF peakIdx = edgeIdx THEN angles[edgeIdx]
        ELSE findCross(angles, vals, half, peakIdx, dir)

\* leftCross (dir = -1) and rightCross (dir = 1) of the main lobe
MainLobeEdge(angles, vals, peakIdx, half, nullLeft, nullRight, dir) ==
    LET edgeIdx == IF dir = -1 THEN 0 ELSE Length(angles) - 1
        useNulls == /\ nullLeft # <<>> /\ nullRight # <<>>
                    /\ NLt(nullLeft[1], angles[peakIdx])
                    /\ NGt(nullRight[1], angles[peakIdx])
    IN  IF ~NGe(vals[peakIdx], half) THEN angles[edgeIdx]
        ELSE IF useNulls THEN (IF dir = -1 THEN nullLeft[1] ELSE nullRight[1])
        ELSE IF peakIdx = edgeIdx THEN angles[edgeIdx]
        ELSE findCross(angles, vals, half, peakIdx, dir)

StatsOfNulls(angles, vals, peakIdx, peakVal, half, nullLeft, nullRight) ==
    StatsOfMainLobe(angles, vals, peakVal,
                    MainLobeEdge(angles, vals, peakIdx, half, nullLeft, nullRight, -1),
                    MainLobeEdge(angles, vals, peakIdx, half, nullLeft, nullRight, 1))

StatsOfPeak(angles, vals, peakIdx, peakVal) ==
    IF NEq(peakVal, Int2Num(0)) THEN AllNullStats
    ELSE StatsOfNulls(angles, vals, peakIdx, peakVal, NMul(peakVal, Fin(<<1, 2>>)),
                      findNull(angles, vals, peakIdx, -1), findNull(angles, vals, peakIdx, 1))

StatsOfSamples(angles, vals, peakIdx) ==
    StatsOfPeak(angles, vals, peakIdx, PeakValue(vals, peakIdx))

StatsOfValues(angles, vals) ==
    StatsOfSamples(angles, vals, PeakIdxUpTo(vals, Length(vals)))

StatsOfSorted(pts) ==
    StatsOfValues([i \in 0..(Length(pts) - 1) |-> pts[i].angleDeg],
                  [i \in 0..(Length(pts) - 1) |->
                     IF IsFin(pts[i].intensityLin) THEN pts[i].intensityLin ELSE Int2Num(0)])

computePatternStats(pointsIn) ==
  IF Length(pointsIn) = 0 THEN AllNullStats ELSE StatsOfSorted(SortedByAngle(pointsIn))

(***************************************************************************)
(* Strings are sequences of characters (one-character strings), so that    *)
(* formatting, splitting, trimming and Number(...) are computed on text.   *)
(* Number(...) reads decimal notation ([sign] digits [. digits]) and       *)
(* Infinity; a finite number is written in decimal notation with at most   *)
(* MaxFracDigits digits after the point.                                   *)
(***************************************************************************)
Whitespace == {" ", "\t", "\r", "\n"}
Digits == <<"0", "1", "2", "3", "4", "5", "6", "7", "8", "9">>
IsDigit(c) == \E i \in 1..10 : Digits[i] = c
DigitVal(c) == (CHOOSE i \in 1..10 : Digits[i] = c) - 1

RECURSIVE TrimStart(_)
TrimStart(s) == IF s # <<>> /\ Head(s) \in Whitespace THEN TrimStart(Tail(s)) ELSE s

RECURSIVE TrimEnd(_)
TrimEnd(s) ==
  IF s # <<>> /\ s[Len(s)] \in Whitespace THEN TrimEnd(SubSeq(s, 1, Len(s) - 1)) ELSE s

\* String.prototype.trim
Trim(s) == TrimEnd(TrimStart(s))

\* String.prototype.startsWith
StartsWith(s, prefix) == Len(s) >= Len(prefix) /\ SubSeq(s, 1, Len(prefix)) = prefix

\* s.split(sep) for a one-character separator: the pieces between separators
Split(s, sep) ==
  LET at == {i \in 1..Len(s) : s[i] = sep}
      \* the position of the k-th separator; 0 and Len(s) + 1 bound the string
      pos(k) == IF k = 0 THEN 0
                ELSE IF k > Cardinality(at) THEN Len(s) + 1
                ELSE CHOOSE p \in at : Cardinality({q \in at : q < p}) = k - 1
  IN  [k \in 1..(Cardinality(at) + 1) |-> SubSeq(s, pos(k - 1) + 1, pos(k) - 1)]

\* csv.split(/\r?\n/): a line break is "\n" with the "\r" before it, if any
SplitLines(csv) ==
  LET pieces == Split(csv, "\n")
      cut(p) == IF p # <<>> /\ p[Len(p)] = "\r" THEN SubSeq(p, 1, Len(p) - 1) ELSE p
  IN  [k \in 1..Len(pieces) |-> IF k < Len(pieces) THEN cut(pieces[k]) ELSE pieces[k]]

\* Array.prototype.join
RECURSIVE Join(_, _)
Join(pieces, sep) ==
  IF pieces = <<>> THEN <<>>
  ELSE IF Len(pieces) = 1 THEN pieces[1]
  ELSE pieces[1] \o sep \o Join(Tail(pieces), sep)

MaxFracDigits == 6

RECURSIVE IntDigits(_)
IntDigits(n) == IF n < 10 THEN <<Digits[n + 1]>> ELSE Append(IntDigits(n \div 10), Digits[(n % 10) + 1])

RECURSIVE FracDigits(_, _, _)
FracDigits(rem, d, k) ==
  IF rem = 0 \/ k = 0 THEN <<>>
  ELSE <<Digits[((rem * 10) \div d) + 1]>> \o FracDigits((rem * 10) % d, d, k - 1)

\* a number as template literals and String(...) write it
NumberToString(x) ==
  CASE x.k = "undef" -> <<"u", "n", "d", "e", "f", "i", "n", "e", "d">>
    [] x.k = "nan" -> <<"N", "a", "N">>
    [] x.k = "pinf" -> <<"I", "n", "f", "i", "n", "i", "t", "y">>
    [] x.k = "ninf" -> <<"-">> \o <<"I", "n", "f", "i", "n", "i", "t", "y">>
    [] OTHER ->
         LET n == IAbs(x.r[1])
             d == x.r[2]
             frac == FracDigits(n % d, d, MaxFracDigits)
         IN  (IF x.r[1] < 0 THEN <<"-">> ELSE <<>>)
               \o IntDigits(n \div d)
               \o (IF frac = <<>> THEN <<>> ELSE <<".">> \o frac)

RECURSIVE DigitsValue(_, _)
DigitsValue(s, acc) == IF s = <<>> THEN acc ELSE DigitsValue(Tail(s), 10 * acc + DigitVal(Head(s)))

RECURSIVE Pow10(_)
Pow10(k) == IF k = 0 THEN 1 ELSE 10 * Pow10(k - 1)

\* the value of digits [. digits], or NaN
UnsignedDecimal(s) ==
  LET parts == Split(s, ".")
      whole == parts[1]
      frac == IF Len(parts) = 2 THEN parts[2] ELSE <<>>
      allDigits(p) == \A i \in 1..Len(p) : IsDigit(p[i])
  IN  IF Len(parts) > 2 \/ ~allDigits(whole) \/ ~allDigits(frac) \/ Len(whole) + Len(frac) = 0
      THEN NaN
      ELSE Fin(RAdd(RInt(DigitsValue(whole, 0)), RNorm(DigitsValue(frac, 0), Pow10(Len(frac)))))

\* Number(s) for a string s
StringToNumber(s) ==
  LET t == Trim(s)
      signed == t # <<>> /\ Head(t) \in {"+", "-"}
      body == IF signed THEN Tail(t) ELSE t
      magnitude == IF body = <<"I", "n", "f", "i", "n", "i", "t", "y">> THEN PInf ELSE UnsignedDecimal(body)
  IN  IF t = <<>> THEN Int2Num(0)
      ELSE IF signed /\ Head(t) = "-" THEN NNeg(magnitude) ELSE magnitude

\* the characters of the words the configuration uses
Chars(word) ==
  CASE word = "wavelength" -> <<"w", "a", "v", "e", "l", "e", "n", "g", "t", "h">>
    [] word = "meters" -> <<"m", "e", "t", "e", "r", "s">>
    [] word = "rectangular" -> <<"r", "e", "c", "t", "a", "n", "g", "u", "l", "a", "r">>
    [] word = "hamming" -> <<"h", "a", "m", "m", "i", "n", "g">>
    [] word = "triangular" -> <<"t", "r", "i", "a", "n", "g", "u", "l", "a", "r">>
    [] word = "chebyshev" -> <<"c", "h", "e", "b", "y", "s", "h", "e", "v">>
    [] word = "custom" -> <<"c", "u", "s", "t", "o", "m">>
    [] word = "elements" -> <<"e", "l", "e", "m", "e", "n", "t", "s">>
    [] word = "spacing" -> <<"s", "p", "a", "c", "i", "n", "g">>
    [] word = "spacingUnit" -> <<"s", "p", "a", "c", "i", "n", "g", "U", "n", "i", "t">>
    [] word = "frequencyHz" -> <<"f", "r", "e", "q", "u", "e", "n", "c", "y", "H", "z">>
    [] word = "waveSpeed" -> <<"w", "a", "v", "e", "S", "p", "e", "e", "d">>
    [] word = "steerAngleDeg" -> <<"s", "t", "e", "e", "r", "A", "n", "g", "l", "e", "D", "e", "g">>
    [] word = "windowType" -> <<"w", "i", "n", "d", "o", "w", "T", "y", "p", "e">>
    [] word = "focusDepth" -> <<"f", "o", "c", "u", "s", "D", "e", "p", "t", "h">>
    [] word = "chebyshevSidelobeDb" -> <<"c", "h", "e", "b", "y", "s", "h", "e", "v", "S", "i", "d", "e", "l", "o", "b", "e", "D", "b">>
    [] word = "customWeights" -> <<"c", "u", "s", "t", "o", "m", "W", "e", "i", "g", "h", "t", "s">>
    [] word = "present" -> <<"p", "r", "e", "s", "e", "n", "t">>

(***************************************************************************)
(* profile/csv.ts: toCsv, parseCsvConfig                                   *)
(***************************************************************************)
DataHeader == <<"i", "n", "d", "e", "x", ",", "w", "e", "i", "g", "h", "t", ",", "p", "h", "a", "s", "e", "R", "a", "d", "i", "a", "n", "s", ",", "t", "i", "m", "e", "D", "e", "l", "a", "y", "S", "e", "c", "o", "n", "d", "s">>

\* the line `key,value`
KeyValueLine(key, value) == Chars(key) \o <<",">> \o value

\* arr[i], or undefined past the end
ReadOrUndefined(arr, i) == IF i \in DOMAIN arr THEN arr[i] ELSE Undefined

\* an optional number written as 0 when it is absent
OptionalAsZero(x) == NumberToString(Nullish(x, Int2Num(0)))

\* ${x ?? ""} for an optional number
OptionalToString(x) == IF x = <<>> THEN <<>> ELSE NumberToString(x[1])

toCsv(result) ==
  LET config == result.config
      weights == result.snapshot.weights
      delays == result.snapshot.delays
      header ==
        Join(<<<<"#", " ", "B", "e", "a", "m", "f", "o", "r", "m", "e", "r", "C", "o", "n", "f", "i", "g">>,
               KeyValueLine("elements", NumberToString(Int2Num(config.elements))),
               KeyValueLine("spacing", NumberToString(config.spacing)),
               KeyValueLine("spacingUnit", Chars(config.spacingUnit)),
               KeyValueLine("frequencyHz", NumberToString(config.frequencyHz)),
               KeyValueLine("waveSpeed", NumberToString(config.waveSpeed)),
               KeyValueLine("steerAngleDeg", NumberToString(config.steerAngleDeg)),
               KeyValueLine("windowType", Chars(config.windowType)),
               KeyValueLine("focusDepth", OptionalToString(config.focusDepth)),
               KeyValueLine("chebyshevSidelobeDb", OptionalToString(config.chebyshevSidelobeDb)),
               KeyValueLine("customWeights",
                            IF config.customWeights # <<>> THEN Chars("present") ELSE <<>>),
               <<>>,
               DataHeader>>, <<"\n">>)
      rows == [i \in 1..Length(weights) |->
                 Join(<<NumberToString(Int2Num(i - 1)),
                        NumberToString(weights[i - 1]),
                        NumberToString(ReadOrUndefined(delays.phaseRadians, i - 1)),
                        NumberToString(ReadOrUndefined(delays.timeDelays, i - 1))>>, <<",">>)]
  IN  header \o <<"\n">> \o Join(rows, <<"\n">>) \o <<"\n">>

\* map.get(key): <<>> when the key was never set, else the value set last
RECURSIVE MapGet(_, _)
MapGet(map, key) ==
  IF map = <<>> THEN <<>>
  ELSE IF map[Len(map)][1] = Chars(key) THEN <<map[Len(map)][2]>>
  ELSE MapGet(SubSeq(map, 1, Len(map) - 1), key)

\* a header test that wants the whole line to be the header
IsExactly(L, header) == L = header

\* L.startsWith("index,weight,phaseRadians,timeDelaySeconds")
IsDataHeader(L, header) == StartsWith(L, header)

\* the first loop: the key,value pairs seen and the index after the header
\* line (-1 when no line is the header); lines are numbered from 0
RECURSIVE ScanHeader(_, _, _)
ScanHeader(lines, i, map) ==
  IF i >= Len(lines) THEN [dataStart |-> -1, map |-> map]
  ELSE LET L == Trim(lines[i + 1])
           parts == Split(L, ",")
       IN  IF L = <<>> THEN ScanHeader(lines, i + 1, map)
           ELSE IF StartsWith(L, <<"#">>) THEN ScanHeader(lines, i + 1, map)
           ELSE IF IsDataHeader(L, DataHeader) THEN [dataStart |-> i + 1, map |-> map]
           ELSE IF Len(parts) >= 2
                THEN ScanHeader(lines, i + 1,
                                Append(map, <<parts[1], Join(Tail(parts), <<",">>)>>))
                ELSE ScanHeader(lines, i + 1, map)

\* the second loop: the weights pushed from line i on
RECURSIVE ScanRows(_, _, _)
ScanRows(lines, i, weights) ==
  IF i >= Len(lines) THEN weights
  ELSE LET L == Trim(lines[i + 1])
           parts == Split(L, ",")
       IN  IF L = <<>> \/ Len(parts) < 2 THEN ScanRows(lines, i + 1, weights)
           ELSE ScanRows(lines, i + 1, Append(weights, StringToNumber(parts[2])))

\* customWeights that are kept whatever the number of rows
AlwaysCustomWeights(weights, elements) == <<weights>>

\* weights.length === elements ? weights : undefined
CustomWeightsOf(weights, elements) ==
  IF NEq(Int2Num(Length(weights)), elements) THEN <<weights>> ELSE <<>>

\* Number(map.get(key) ?? dflt)
NumberField(map, key, dflt) ==
  IF MapGet(map, key) = <<>> THEN dflt ELSE StringToNumber(MapGet(map, key)[1])

\* (map.get(key) ?? dflt) as a word
WordField(map, key, dflt) ==
  IF MapGet(map, key) = <<>> THEN Chars(dflt) ELSE MapGet(map, key)[1]

\* str ? Number(str) : undefined
OptionalField(map, key) ==
  IF MapGet(map, key) = <<>> \/ MapGet(map, key) = <<<<>>>> THEN <<>>
  ELSE <<StringToNumber(MapGet(map, key)[1])>>

CsvError == [threw |-> TRUE]

parseCsvConfig(csv) ==
  LET lines == SplitLines(csv)
      scan == ScanHeader(lines, 0, <<>>)
      map == scan.map
      elements == NumberField(map, "elements", Int2Num(0))
      weights == ToArray(ScanRows(lines, scan.dataStart, <<>>))
  IN  IF scan.dataStart < 0 THEN CsvError
      ELSE [threw |-> FALSE,
            config |->
              [elements |-> elements,
               spacing |-> NumberField(map, "spacing", Int2Num(0)),
               spacingUnit |-> WordField(map, "spacingUnit", "wavelength"),
               frequencyHz |-> NumberField(map, "frequencyHz", Int2Num(1)),
               waveSpeed |-> NumberField(map, "waveSpeed", Int2Num(1540)),
               steerAngleDeg |-> NumberField(map, "steerAngleDeg", Int2Num(0)),
               windowType |-> WordField(map, "windowType", "rectangular"),
               chebyshevSidelobeDb |-> OptionalField(map, "chebyshevSidelobeDb"),
               focusDepth |-> OptionalField(map, "focusDepth"),
               customWeights |-> CustomWeightsOf(weights, elements)],
            weights |-> weights]

(***************************************************************************)
(* Bounds of the model and the inputs drawn from them.                     *)
(***************************************************************************)
MaxScanLines == 3
MaxSamples == 2
MaxElements == 3
MaxWindow == 4

ScanTypes == {"linear", "phased"}
\* timeStep and propagationSpeed; 0 is what the web form stores for an empty field
TimeSteps == {Int2Num(0), Fin(<<1, 2>>)}
PropagationSpeeds == {Int2Num(0), Int2Num(1)}
\* (timeStep, propagationSpeed): both set, or one of them left empty
Timings == {<<dt, c>> \in TimeSteps \X PropagationSpeeds : dt # Int2Num(0) \/ c # Int2Num(0)}
Ranges == {<<Int2Num(-30), Int2Num(30)>>, <<Int2Num(0), Int2Num(90)>>}

MakeConfig(dt, c, L, type, range, samples, elements, spacing) ==
  [timeStep |-> dt, propagationSpeed |-> c,
   scanning |-> [numScanLines |-> L, type |-> type, range |-> range, samples |-> samples],
   array |-> [elements |-> elements, elementSpacing |-> spacing]]

Configs ==
  {MakeConfig(tm[1], tm[2], L, type, range, samples, elements, Int2Num(1)) :
     tm \in Timings, L \in {1, MaxScanLines}, type \in ScanTypes,
     range \in Ranges, samples \in {1, MaxSamples}, elements \in 1..MaxElements}

\* Sample matrices of shape [samples][elements]: the zero matrix, a ramp with
\* pairwise distinct entries, and the matrices with a single non-zero cell
\* (every beamformer is linear in the matrix, and these span the shape).
CellValues == {Int2Num(-2)}
ZeroMatrix(samples, elements) ==
  [s \in 0..(samples - 1) |-> [e \in 0..(elements - 1) |-> Int2Num(0)]]
RampMatrix(samples, elements) ==
  [s \in 0..(samples - 1) |-> [e \in 0..(elements - 1) |-> Int2Num(1 + s * elements + e)]]
UnitMatrix(samples, elements, s0, e0, v) ==
  [s \in 0..(samples - 1) |->
     [e \in 0..(elements - 1) |-> IF s = s0 /\ e = e0 THEN v ELSE Int2Num(0)]]
Matrices(samples, elements) ==
  {ZeroMatrix(samples, elements), RampMatrix(samples, elements)}
  \cup {UnitMatrix(samples, elements, s0, e0, v) :
          s0 \in 0..(samples - 1), e0 \in 0..(elements - 1), v \in CellValues}

WindowTypes == {"rectangular", "hamming", "triangular", "chebyshev", "custom"}
ApodizedOptions ==
  {[windowType |-> <<>>, chebyshevSidelobeDb |-> <<>>],
   [windowType |-> <<"triangular">>, chebyshevSidelobeDb |-> <<Int2Num(30)>>],
   [windowType |-> <<"chebyshev">>, chebyshevSidelobeDb |-> <<>>]}

(***************************************************************************)
(* State.  `call` is the last call of a pure function of the core, with    *)
(* its arguments and result.  The other variables are one run of runFrame: *)
(* its program counter, its locals, the heap of arrays the generator has   *)
(* allocated, and the calls it has made to its two collaborators.  `page`   *)
(* is the dynamic beamformer page: its settings, its two refs, the frame   *)
(* it shows and the timers it has set.                                     *)
(***************************************************************************)
VARIABLES call, pc, frame, heap, trace, page

vars == <<call, pc, frame, heap, trace, page>>

NoCall == [op |-> "none"]
NoFrame == [cfg |-> "none"]

\* the settings of the page that matter to a run: dtUs and elements
PageSettings(dtUs, elements) == [dtUs |-> dtUs, elements |-> elements]

\* the page after its first render: no run, no frame, auto-run off.  The
\* fields requests, lastRequested, coalesced and finished record what has
\* happened: they are not state of the program.
InitPage ==
  [settings |-> PageSettings(1, 2), autoRun |-> FALSE,
   runningRef |-> FALSE, queuedRef |-> FALSE, tasks |-> <<>>, frame |-> <<>>,
   requests |-> 0, lastRequested |-> <<>>, coalesced |-> 0, finished |-> <<>>]

Init ==
  /\ call = NoCall
  /\ pc = "idle"
  /\ frame = NoFrame
  /\ heap = <<>>
  /\ trace = <<>>
  /\ page = InitPage

frameVars == <<pc, frame, heap, trace, page>>

(***************************************************************************)
(* Calls of the dynamic beamformers.                                       *)
(***************************************************************************)
CallSum ==
  /\ call = NoCall
  /\ pc = "idle"
  /\ \E cfg \in Configs, i \in 0..(MaxScanLines - 1) :
    \E matrix \in Matrices(cfg.scanning.samples, cfg.array.elements) :
      /\ i < cfg.scanning.numScanLines
      /\ call' = [op |-> "sum", cfg |-> cfg, matrix |-> matrix, scanlineIndex |-> i,
                  opts |-> <<>>, result |-> SumBeamform(matrix, i, cfg)]
      /\ UNCHANGED frameVars

CallDelayAndSum ==
  /\ call = NoCall
  /\ pc = "idle"
  /\ \E cfg \in Configs, i \in 0..(MaxScanLines - 1) :
    \E matrix \in Matrices(cfg.scanning.samples, cfg.array.elements) :
      /\ i < cfg.scanning.numScanLines
      /\ call' = [op |-> "delay", cfg |-> cfg, matrix |-> matrix, scanlineIndex |-> i,
                  opts |-> <<>>, result |-> DelayAndSumBeamform(matrix, i, cfg)]
      /\ UNCHANGED frameVars

CallDelayAndSumApodized ==
  /\ call = NoCall
  /\ pc = "idle"
  /\ \E cfg \in Configs, i \in 0..(MaxScanLines - 1), opts \in ApodizedOptions :
    \E matrix \in Matrices(cfg.scanning.samples, cfg.array.elements) :
      /\ i < cfg.scanning.numScanLines
      /\ call' = [op |-> "delay-apod", cfg |-> cfg, matrix |-> matrix, scanlineIndex |-> i,
                  opts |-> opts,
                  result |-> DelayAndSumApodizedBeamform(opts, matrix, i, cfg)]
      /\ UNCHANGED frameVars

NextBeamform == CallSum \/ CallDelayAndSum \/ CallDelayAndSumApodized

SpecBeamform == Init /\ [][NextBeamform]_vars

(***************************************************************************)
(* Properties of the dynamic beamformers.                                  *)
(***************************************************************************)
\* f[0] + ... + f[n - 1], added from the last term down
RECURSIVE SumOver(_, _)
SumOver(f, n) == IF n <= 0 THEN Int2Num(0) ELSE NAdd(f[n - 1], SumOver(f, n - 1))

\* sum over e of matrix[s][e]
RowSum(matrix, s) == SumOver(matrix[s], Length(matrix[s]))

\* the matrix whose column e has been multiplied by w[e]
WeightColumns(matrix, w) ==
  [s \in DOMAIN matrix |-> [e \in DOMAIN matrix[s] |-> NMul(w[e], matrix[s][e])]]

\* C4: the sum beamformer returns a vector of length samples with
\* out[s] = sum over e of matrix[s][e], whatever scanlineIndex and
\* scanning.type are; an all-zero matrix gives an all-zero vector.
C4_SumIsRowSum ==
  call.op = "sum" =>
    LET samples == call.cfg.scanning.samples
        out == call.result.value
    IN  /\ ~call.result.threw
        /\ DOMAIN out = 0..(samples - 1)
        /\ \A s \in 0..(samples - 1) : out[s] = RowSum(call.matrix, s)
        /\ \A i \in 0..(MaxScanLines - 1), type \in ScanTypes :
             SumBeamform(call.matrix, i, [call.cfg EXCEPT !.scanning.type = type]).value = out
        /\ call.matrix = ZeroMatrix(samples, call.cfg.array.elements)
             => out = ArrayFill(samples, Int2Num(0))

C4_Witness ==
  /\ call.op = "sum"
  /\ call.cfg.scanning.samples = 2
  /\ call.matrix = RampMatrix(2, 3)
  /\ call.scanlineIndex = 1
  /\ call.result.value = [s \in 0..1 |-> IF s = 0 THEN Int2Num(6) ELSE Int2Num(15)]

\* C2: when scanning.type is not "phased", the delay-and-sum beamformer does
\* not throw and returns the vector the sum beamformer returns for the same
\* inputs: out[s] = sum over e of matrix[s][e], of length samples.
C2_FallbackIsSum ==
  (call.op = "delay" /\ call.cfg.scanning.type # "phased") =>
    LET samples == call.cfg.scanning.samples
        out == call.result.value
    IN  /\ ~call.result.threw
        /\ out = SumBeamform(call.matrix, call.scanlineIndex, call.cfg).value
        /\ DOMAIN out = 0..(samples - 1)
        /\ \A s \in 0..(samples - 1) : out[s] = RowSum(call.matrix, s)

C2_Witness ==
  /\ call.op = "delay"
  /\ call.cfg.scanning.type = "linear"
  /\ call.cfg.timeStep = Int2Num(0)
  /\ call.matrix = RampMatrix(2, 3)
  /\ call.result.log # <<>>
  /\ call.result.value = [s \in 0..1 |-> IF s = 0 THEN Int2Num(6) ELSE Int2Num(15)]

C6_InterpolationNeverRaises ==
  (call.op \in {"delay", "delay-apod"} /\ call.cfg.scanning.type = "phased") =>
    /\ ~call.result.threw
    /\ DOMAIN call.result.value = 0..(call.cfg.scanning.samples - 1)

(***************************************************************************)
(* Calls of the two copies of sampleRowLinear.                             *)
(***************************************************************************)
\* fractional parts: 0, 0.5e-12, 1e-12, 1.5e-12, 1/4, 1/2 and 1 - 0.5e-12
Fractions ==
  {Int2Num(0), Tiny(1), Tiny(2), Tiny(3), Fin(<<1, 4>>), Fin(<<1, 2>>), Num(ROne, RInt(-1))}

SampleIndexes(samples) ==
  {NAdd(Int2Num(whole), f) : whole \in (-2)..(samples + 1), f \in Fractions}
  \cup {PInf, NInf, NaN}

CallSampleRowLinear ==
  /\ call = NoCall
  /\ pc = "idle"
  /\ \E samples \in 1..MaxSamples, elements \in 1..MaxElements :
       \E matrix \in Matrices(samples, elements), e \in 0..(elements - 1),
          idx \in SampleIndexes(samples) :
         /\ call' = [op |-> "sampleRowLinear", matrix |-> matrix, elementIndex |-> e,
                     sampleIndex |-> idx, result |-> sampleRowLinear(matrix, e, idx)]
         /\ UNCHANGED frameVars

CallSampleRowLinearApodized ==
  /\ call = NoCall
  /\ pc = "idle"
  /\ \E samples \in 1..MaxSamples, elements \in 1..MaxElements :
       \E matrix \in Matrices(samples, elements), e \in 0..(elements - 1),
          idx \in SampleIndexes(samples) :
         /\ call' = [op |-> "sampleRowLinearApodized", matrix |-> matrix, elementIndex |-> e,
                     sampleIndex |-> idx, result |-> sampleRowLinearApodized(matrix, e, idx)]
         /\ UNCHANGED frameVars

NextInterpolation == CallSampleRowLinear \/ CallSampleRowLinearApodized

SpecInterpolation == Init /\ [][NextInterpolation]_vars

\* the interpolation rule, for an index that is a number or an infinity
InterpolationRule(matrix, e, idx) ==
  LET rows == Length(matrix)
      s0 == MathFloor(idx)
      frac == NSub(idx, s0)
      InRows(s) == IsFin(s) /\ s.r[1] >= 0 /\ s.r[1] < rows
      At(s) == matrix[s.r[1]][e]
      s1 == NAdd(s0, Int2Num(1))
  IN  IF ~InRows(s0) THEN Int2Num(0)
      ELSE IF NLe(frac, Tiny(2)) THEN At(s0)
      ELSE IF ~InRows(s1) THEN At(s0)
      ELSE NAdd(NMul(At(s0), NSub(Int2Num(1), frac)), NMul(At(s1), frac))

CallWeights ==
  IF call.op = "delay-apod"
  THEN makeWindow(Nullish(call.opts.windowType, "hamming"), call.cfg.array.elements,
                  Nullish(call.opts.chebyshevSidelobeDb, Int2Num(30)))
  ELSE ArrayFill(call.cfg.array.elements, Int2Num(1))

\* the shifted sample index s + shift_e of the call
ShiftedIndex(s, e) == NAdd(Int2Num(s), ElementShift(e, call.scanlineIndex, call.cfg))

\* the floor of the index is a row and the row after it is not, with a
\* fractional part above 1e-12
UpperNeighbourOut(matrix, idx) ==
  /\ IsFin(idx)
  /\ MathFloor(idx).r[1] = Length(matrix) - 1
  /\ NGt(NSub(idx, MathFloor(idx)), Tiny(2))

\* out[s] is the sum over e of w[e] * contribution(e, s)
OutIsSumOf(contribution(_, _)) ==
  \A s \in 0..(call.cfg.scanning.samples - 1) :
    call.result.value[s] =
      Accumulate([e \in 0..(call.cfg.array.elements - 1) |->
                    NMul(CallWeights[e], contribution(e, s))],
                 call.cfg.array.elements - 1)

PhasedCallReturned ==
  /\ call.op \in {"delay", "delay-apod"}
  /\ call.cfg.scanning.type = "phased"
  /\ ~call.result.threw

\* C20 as stated: in the phased delay-and-sum beamformers an element whose
\* shifted index s + shift_e has an out-of-bounds neighbour on either side
\* contributes 0 to out[s]: when the fractional part is > 1e-12 and floor + 1
\* is outside [0, samples) while floor is inside, the contribution is 0; the
\* lower sample alone is contributed only when the fractional part is
\* <= 1e-12.
C20_EdgeContributesZero ==
  PhasedCallReturned =>
    OutIsSumOf(LAMBDA e, s :
      IF UpperNeighbourOut(call.matrix, ShiftedIndex(s, e)) THEN Int2Num(0)
      ELSE InterpolationRule(call.matrix, e, ShiftedIndex(s, e)))

\* C20, amended: an element whose floor index is outside [0, samples)
\* contributes 0 to out[s]; when floor is inside and floor + 1 is outside, the
\* contribution is the lower sample matrix[floor][e], whatever the fractional
\* part; with both inside and a fractional part > 1e-12 it is the linear
\* interpolation of the two.
C20_EdgeContributesLowerSample ==
  PhasedCallReturned =>
    OutIsSumOf(LAMBDA e, s : InterpolationRule(call.matrix, e, ShiftedIndex(s, e)))

\* a plain phased call in which the last row of the ramp is read half a
\* sample past the end and comes through to the output
C20_Witness ==
  /\ PhasedCallReturned
  /\ call.op = "delay"
  /\ call.matrix = RampMatrix(call.cfg.scanning.samples, call.cfg.array.elements)
  /\ \E e \in 0..(call.cfg.array.elements - 1) :
       /\ UpperNeighbourOut(call.matrix, ShiftedIndex(call.cfg.scanning.samples - 1, e))
       /\ \A e2 \in 0..(call.cfg.array.elements - 1) :
            e2 # e => MathFloor(ShiftedIndex(call.cfg.scanning.samples - 1, e2)).r[1]
                        \notin DOMAIN call.matrix
       /\ call.result.value[call.cfg.scanning.samples - 1]
            = call.matrix[call.cfg.scanning.samples - 1][e]

PhasedDelayCall == call.op = "delay" /\ call.cfg.scanning.type = "phased"

\* every per-element shift of the call is zero
AllShiftsZero ==
  \A e \in 0..(call.cfg.array.elements - 1) :
    NEq(ElementShift(e, call.scanlineIndex, call.cfg), Int2Num(0))

\* the centre element of an array with an odd number of elements
CentreElements(N) == {e \in 0..(N - 1) : 2 * e = N - 1}

ZeroSteeringIsSum ==
  /\ NEq(scanlineParam(call.cfg, call.scanlineIndex), Int2Num(0)) =>
       /\ AllShiftsZero
       /\ call.result = SumBeamform(call.matrix, call.scanlineIndex, call.cfg)
  /\ \A e \in CentreElements(call.cfg.array.elements) :
       NEq(ElementShift(e, call.scanlineIndex, call.cfg), Int2Num(0))

\* C30: with phased scanning, for any scanline whose steering parameter is
\* 0 degrees every per-element shift is zero, so the delay-and-sum
\* beamformer returns exactly the output of the sum beamformer for every
\* matrix of shape [samples][elements]; likewise for a single-element array
\* or the centre element of an odd number of elements the shift is zero at
\* every steering angle.
C30_ZeroSteeringIsSum == PhasedDelayCall => ZeroSteeringIsSum

\* the same when neither timeStep nor propagationSpeed is 0: the shifts are
\* 0 / (c * dt) then
ZeroSteeringIsSumWithTiming ==
  (/\ PhasedDelayCall
   /\ call.cfg.timeStep # Int2Num(0)
   /\ call.cfg.propagationSpeed # Int2Num(0)) => ZeroSteeringIsSum

(***************************************************************************)
(* Calls of scanlineParam.                                                 *)
(***************************************************************************)
RangeEnds == {Int2Num(-30), Int2Num(0), Fin(<<1, 2>>), Int2Num(90)}

GeometryConfigs ==
  {MakeConfig(Int2Num(1), Int2Num(1), L, "phased", <<lo, hi>>, 1, 1, Int2Num(1)) :
     L \in 0..MaxScanLines, lo \in RangeEnds, hi \in RangeEnds}

CallScanlineParam ==
  /\ call = NoCall
  /\ pc = "idle"
  /\ \E cfg \in GeometryConfigs, i \in 0..MaxScanLines :
       /\ call' = [op |-> "scanlineParam", cfg |-> cfg, scanlineIndex |-> i,
                   result |-> scanlineParam(cfg, i)]
       /\ UNCHANGED frameVars

NextGeometry == CallScanlineParam

SpecGeometry == Init /\ [][NextGeometry]_vars

\* C8: scanlineParam returns (min + max) / 2 when numScanLines <= 1, whatever
\* the index; otherwise min + (i / (numScanLines - 1)) * (max - min), so that
\* index 0 gives range[0], index numScanLines - 1 gives range[1], and
\* consecutive indices are evenly spaced and monotone in the direction of
\* the range.
C8_ScanlineParamInterpolates ==
  call.op = "scanlineParam" =>
    LET L == call.cfg.scanning.numScanLines
        min == call.cfg.scanning.range[1]
        max == call.cfg.scanning.range[2]
        i == call.scanlineIndex
        step == NSub(scanlineParam(call.cfg, i + 1), call.result)
    IN  IF L <= 1
        THEN call.result = NDiv(NAdd(min, max), Int2Num(2))
        ELSE /\ call.result =
                  NAdd(min, NMul(Fin(<<i, L - 1>>), NSub(max, min)))
             /\ i = 0 => call.result = min
             /\ i = L - 1 => call.result = max
             /\ step = NDiv(NSub(max, min), Int2Num(L - 1))
             /\ NLt(min, max) => NLt(call.result, scanlineParam(call.cfg, i + 1))
             /\ NLt(max, min) => NLt(scanlineParam(call.cfg, i + 1), call.result)

C8_Witness ==
  /\ call.op = "scanlineParam"
  /\ call.cfg.scanning.numScanLines = 3
  /\ call.cfg.scanning.range = <<Int2Num(-30), Int2Num(90)>>
  /\ call.scanlineIndex = 1
  /\ call.result = Int2Num(30)

(***************************************************************************)
(* Calls of makeWindow and computeWeights.                                 *)
(***************************************************************************)
WindowSizes == (1..MaxWindow) \cup {8}
SidelobeLevels ==
  {<<>>, <<Int2Num(0)>>, <<Int2Num(20)>>, <<Int2Num(40)>>, <<Int2Num(4000)>>, <<Int2Num(7000)>>,
   <<NaN>>}

\* custom weight lists of length n: all zero, a ramp 1..n, all negative, mixed signs
CustomWeightLists(n) ==
  {[i \in 0..(n - 1) |-> Int2Num(0)],
   [i \in 0..(n - 1) |-> Int2Num(i + 1)],
   [i \in 0..(n - 1) |-> Int2Num(-(i + 2))],
   [i \in 0..(n - 1) |-> IF i % 2 = 0 THEN Fin(<<1, 2>>) ELSE Int2Num(-4)]}

CustomWeightOptions ==
  {<<>>} \cup {<<cw>> : cw \in UNION {CustomWeightLists(n) : n \in 0..(MaxWindow + 1)}}

MakeProfileConfig(elements, windowType, chebDb, customWeights) ==
  [elements |-> elements, spacing |-> Fin(<<1, 2>>), spacingUnit |-> "wavelength",
   frequencyHz |-> Int2Num(1), waveSpeed |-> Int2Num(1), steerAngleDeg |-> Int2Num(0),
   windowType |-> windowType, chebyshevSidelobeDb |-> chebDb, focusDepth |-> <<>>,
   customWeights |-> customWeights]

CallMakeWindow ==
  /\ call = NoCall
  /\ pc = "idle"
  /\ \E type \in WindowTypes, N \in WindowSizes, chebDb \in SidelobeLevels :
       /\ call' = [op |-> "makeWindow", type |-> type, N |-> N, chebDb |-> chebDb,
                   result |-> makeWindow(type, N, Nullish(chebDb, Int2Num(30)))]
       /\ UNCHANGED frameVars

CallComputeWeights ==
  /\ call = NoCall
  /\ pc = "idle"
  /\ \E type \in WindowTypes, N \in 1..MaxWindow, cw \in CustomWeightOptions :
       LET cfg == MakeProfileConfig(N, type, <<>>, cw)
       IN  /\ call' = [op |-> "computeWeights", cfg |-> cfg, result |-> computeWeights(cfg)]
           /\ UNCHANGED frameVars

NextWindow == CallMakeWindow \/ CallComputeWeights

SpecWindow == Init /\ [][NextWindow]_vars

(***************************************************************************)
(* One call of computeDelays(cfg).                                         *)
(***************************************************************************)
MaxProfileElements == 4

SteerAngles == {Int2Num(0), Int2Num(30), Int2Num(-30), Int2Num(90)}
FocusDepths == {<<>>, <<Int2Num(0)>>, <<Int2Num(1)>>, <<Int2Num(2)>>}
SpacingUnits == {"wavelength", "meters"}
\* spacing, frequencyHz and waveSpeed are positive numbers
Spacings == {Fin(<<1, 2>>), Int2Num(1)}
Frequencies == {Int2Num(1), Int2Num(2)}
WaveSpeeds == {Int2Num(1), Int2Num(2)}

MakeSteeredConfig(N, d, unit, f, c, angle, focusDepth, windowType, customWeights) ==
  [elements |-> N, spacing |-> d, spacingUnit |-> unit,
   frequencyHz |-> f, waveSpeed |-> c, steerAngleDeg |-> angle,
   windowType |-> windowType, chebyshevSidelobeDb |-> <<>>, focusDepth |-> focusDepth,
   customWeights |-> customWeights]

SteeredConfigs ==
  {MakeSteeredConfig(N, d, u, f, c, a, F, "rectangular", <<>>) :
     N \in 1..MaxProfileElements, d \in Spacings, u \in SpacingUnits, f \in Frequencies,
     c \in WaveSpeeds, a \in SteerAngles, F \in FocusDepths}

CallComputeDelays ==
  /\ call = NoCall
  /\ pc = "idle"
  /\ \E cfg \in SteeredConfigs :
       /\ call' = [op |-> "computeDelays", cfg |-> cfg, result |-> computeDelays(cfg)]
       /\ UNCHANGED frameVars

NextDelays == CallComputeDelays

SpecDelays == Init /\ [][NextDelays]_vars

AngleOnly(cfg) == cfg.focusDepth = <<>> \/ NEq(cfg.focusDepth[1], Int2Num(0))

IsOdd(N) == N % 2 = 1

\* C12: for angle-only steering (focusDepth absent or 0) timeDelays[i] ==
\* -timeDelays[N-1-i] for every i; for odd N the centre element's delay and
\* phase are exactly 0; at broadside (steerAngleDeg = 0) every delay is 0;
\* timeDelays and phaseRadians both have length elements.
C12_AngleDelaysAntisymmetric ==
  (call.op = "computeDelays" /\ AngleOnly(call.cfg)) =>
    LET N == call.cfg.elements
        td == call.result.timeDelays
        ph == call.result.phaseRadians
    IN  /\ DOMAIN td = 0..(N - 1)
        /\ DOMAIN ph = 0..(N - 1)
        /\ \A i \in 0..(N - 1) : NEq(td[i], NNeg(td[N - 1 - i]))
        /\ IsOdd(N) => /\ NEq(td[(N - 1) \div 2], Int2Num(0))
                        /\ NEq(ph[(N - 1) \div 2], Int2Num(0))
        /\ NEq(call.cfg.steerAngleDeg, Int2Num(0)) =>
             \A i \in 0..(N - 1) : NEq(td[i], Int2Num(0))

\* angle-only steering off broadside with an even and an odd element count
\* has produced delays that are not all 0
C12_Witness ==
  /\ call.op = "computeDelays"
  /\ AngleOnly(call.cfg)
  /\ call.cfg.focusDepth = <<Int2Num(0)>>
  /\ call.cfg.elements = 3
  /\ NEq(call.cfg.steerAngleDeg, Int2Num(30))
  /\ NGt(call.result.timeDelays[2], Int2Num(0))
  /\ NLt(call.result.timeDelays[0], Int2Num(0))

\* the distance from (x, 0) to the focal point (xF, zF)
Distance(x, xF, zF) == MathSqrt(NAdd(Square(NSub(x, xF)), Square(zF)))

\* C13: for focused steering (focusDepth > 0, any steer angle) with odd N the
\* centre element has timeDelays and phaseRadians exactly 0, and every
\* element's delay is (r_i - r_ref) / c with r_ref the range from x = 0 to the
\* focal point (focusDepth * sin(theta0), focusDepth * cos(theta0)).
C13_FocusedCentreZero ==
  (call.op = "computeDelays" /\ ~AngleOnly(call.cfg)
     /\ NGt(call.cfg.focusDepth[1], Int2Num(0))) =>
    LET cfg == call.cfg
        N == cfg.elements
        td == call.result.timeDelays
        ph == call.result.phaseRadians
        xF == NMul(cfg.focusDepth[1], MathSin(SteerRadians(cfg)))
        zF == NMul(cfg.focusDepth[1], MathCos(SteerRadians(cfg)))
        rRef == Distance(Int2Num(0), xF, zF)
    IN  /\ IsOdd(N) => /\ NEq(td[(N - 1) \div 2], Int2Num(0))
                        /\ NEq(ph[(N - 1) \div 2], Int2Num(0))
        /\ \A i \in 0..(N - 1) :
             NEq(td[i], NDiv(NSub(Distance(ElementX(cfg, i), xF, zF), rRef), cfg.waveSpeed))

\* a focused, steered, odd array whose outer elements have delays that are
\* not 0 and differ from each other
C13_Witness ==
  /\ call.op = "computeDelays"
  /\ ~AngleOnly(call.cfg)
  /\ call.cfg.elements = 3
  /\ NEq(call.cfg.steerAngleDeg, Int2Num(30))
  /\ ~NEq(call.result.timeDelays[0], Int2Num(0))
  /\ ~NEq(call.result.timeDelays[0], call.result.timeDelays[2])

(***************************************************************************)
(* One call of computePattern(cfg, anglesDeg, true).                       *)
(***************************************************************************)
MaxAngles == 2

SweepAngles == {Int2Num(-90), Int2Num(0), Int2Num(30)}
AngleLists == UNION {[0..(n - 1) -> SweepAngles] : n \in 0..MaxAngles}

PatternWindows == {"rectangular", "triangular"}

\* the sizes at which the hamming window (the fallback of "custom" without
\* usable weights) goes through a sweep: its weights are ratios of four-digit
\* numbers
HammingSizes == {1, 2}

\* half-wavelength arrays with a preset window, with custom weights of the
\* right length, with a Chebyshev window whose weights are NaN, and with the
\* hamming fallback
PatternConfigs ==
  LET cfg(N, a, type, cw) ==
        MakeSteeredConfig(N, Fin(<<1, 2>>), "wavelength", Int2Num(1), Int2Num(1), a, <<>>, type, cw)
  IN  UNION {
        {cfg(N, a, type, <<>>) : type \in PatternWindows}
          \cup {cfg(N, a, "custom", <<cw>>) : cw \in CustomWeightLists(N)}
          \cup {[cfg(N, a, "chebyshev", <<>>) EXCEPT !.chebyshevSidelobeDb = <<Int2Num(4000)>>]}
          \cup {cfg(M, a, "custom", <<>>) : M \in HammingSizes \cap {N}}
        : N \in 1..MaxProfileElements, a \in {Int2Num(0), Int2Num(30)}}

CallComputePattern ==
  /\ call = NoCall
  /\ pc = "idle"
  /\ \E cfg \in PatternConfigs, anglesDeg \in AngleLists :
       /\ call' = [op |-> "computePattern", cfg |-> cfg, anglesDeg |-> anglesDeg,
                   result |-> computePattern(cfg, anglesDeg, TRUE)]
       /\ UNCHANGED frameVars

NextPattern == CallComputePattern

SpecPattern == Init /\ [][NextPattern]_vars

\* C14: computePattern(cfg, angles, true) returns one point per input angle in
\* input order; when some raw intensity is > 0 every intensityLin is in
\* [0, 1], some intensityLin is exactly 1 and intensityDb is 0 wherever
\* intensityLin is 1; when every raw intensity is 0 every intensityLin is 0;
\* and always intensityDb = -Infinity exactly when intensityLin = 0.
C14_PatternNormalised ==
  call.op = "computePattern" =>
    LET angles == call.anglesDeg
        out == call.result
        J == DOMAIN angles
        raw(j) == RawIntensity(call.cfg, angles[j])
    IN  /\ DOMAIN out = J
        /\ \A j \in J : out[j].angleDeg = angles[j]
        /\ (\E j \in J : NGt(raw(j), Int2Num(0))) =>
             /\ \A j \in J : /\ NLe(Int2Num(0), out[j].intensityLin)
                              /\ NLe(out[j].intensityLin, Int2Num(1))
             /\ \E j \in J : NEq(out[j].intensityLin, Int2Num(1))
             /\ \A j \in J : NEq(out[j].intensityLin, Int2Num(1)) =>
                                NEq(out[j].intensityDb, Int2Num(0))
        /\ (\A j \in J : NEq(raw(j), Int2Num(0))) =>
             \A j \in J : NEq(out[j].intensityLin, Int2Num(0))
        /\ \A j \in J : NEq(out[j].intensityDb, NInf) <=> NEq(out[j].intensityLin, Int2Num(0))

\* a sweep whose first angle is below the peak and whose second angle is the
\* peak: the first point lies strictly between 0 and 1
C14_Witness ==
  /\ call.op = "computePattern"
  /\ Length(call.anglesDeg) = 2
  /\ NGt(call.result[0].intensityLin, Int2Num(0))
  /\ NLt(call.result[0].intensityLin, Int2Num(1))
  /\ NLt(call.result[0].intensityDb, Int2Num(0))
  /\ NEq(call.result[1].intensityLin, Int2Num(1))

(***************************************************************************)
(* One call of computePatternStats(pointsIn).                              *)
(***************************************************************************)
MaxPoints == 3

\* angles in degrees; an infinite angle is a number too (NaN is left out: the
\* order Array.prototype.sort gives with a comparator that returns NaN
\* inconsistently is implementation-defined)
StatAngles == {Int2Num(0), Int2Num(30), PInf}
StatIntensities == {Int2Num(0), Fin(<<1, 2>>), Int2Num(1), NaN}

MakePoint(angleDeg, intensityLin) ==
  [angleDeg |-> angleDeg, intensityLin |-> intensityLin,
   intensityDb |-> IF NGt(intensityLin, Int2Num(0))
                   THEN NMul(Int2Num(10), MathLog10(intensityLin)) ELSE NInf]

StatPoints == {MakePoint(a, v) : a \in StatAngles, v \in StatIntensities}

\* a five-point sweep from -60 to 60 degrees with the given intensities
Sweep(v) == [i \in 0..4 |-> MakePoint(Int2Num(30 * i - 60), v[i + 1])]

\* five points of which the first three share the angle 0
RepeatedAngles(v) ==
  [i \in 0..4 |-> MakePoint(Int2Num(IF i < 3 THEN 0 ELSE 30 * (i - 2)), v[i + 1])]

\* sweeps with a main lobe between two nulls, with and without sidelobes,
\* with a null on one side of the peak only, with a null at the angle of the
\* peak, with an intensity that stays above half the peak up to the last
\* sample, and a sweep whose intensities are all negative
ReferencePatterns ==
  {Sweep(<<Fin(<<1, 4>>), Int2Num(0), Int2Num(1), Fin(<<7, 8>>), Fin(<<3, 4>>)>>)} \cup
  {Sweep(<<Fin(<<1, 4>>), Int2Num(0), Int2Num(1), Int2Num(0), Fin(<<1, 2>>)>>),
   Sweep(<<Fin(<<1, 4>>), Int2Num(0), Int2Num(1), Fin(<<1, 2>>), Fin(<<1, 4>>)>>),
   RepeatedAngles(<<Fin(<<1, 4>>), Int2Num(0), Int2Num(1), Int2Num(0), Fin(<<1, 2>>)>>),
   Sweep(<<Int2Num(0), Fin(<<1, 2>>), Int2Num(1), Fin(<<1, 2>>), Int2Num(0)>>),
   Sweep(<<Int2Num(1), Fin(<<1, 4>>), Fin(<<1, 2>>), Fin(<<1, 4>>), Int2Num(1)>>),
   Sweep(<<Int2Num(-1), Int2Num(-2), Int2Num(-1), Int2Num(-2), Int2Num(-1)>>)}

PointLists ==
  UNION {[0..(n - 1) -> StatPoints] : n \in 0..MaxPoints} \cup ReferencePatterns

CallComputePatternStats ==
  /\ call = NoCall
  /\ pc = "idle"
  /\ \E pointsIn \in PointLists :
       /\ call' = [op |-> "computePatternStats", pointsIn |-> pointsIn,
                   result |-> computePatternStats(pointsIn)]
       /\ UNCHANGED frameVars

NextStats == CallComputePatternStats

SpecStats == Init /\ [][NextStats]_vars

\* intensityLin with non-finite values read as 0
FiniteIntensity(p) == IF IsFin(p.intensityLin) THEN p.intensityLin ELSE Int2Num(0)

LargestIsZero(points) ==
  /\ \A i \in DOMAIN points : NLe(FiniteIntensity(points[i]), Int2Num(0))
  /\ \E i \in DOMAIN points : NEq(FiniteIntensity(points[i]), Int2Num(0))

PeakIsPositive(points) ==
  \E i \in DOMAIN points : NGt(FiniteIntensity(points[i]), Int2Num(0))

AllStatsNull(st) ==
  st.pslDb = Null /\ st.pslLin = Null /\ st.islrDb = Null /\ st.fwhmDeg = Null

FirstLargest(vals) ==
  CHOOSE i \in DOMAIN vals :
    /\ \A j \in DOMAIN vals : NLe(vals[j], vals[i])
    /\ \A j \in 0..(i - 1) : NLt(vals[j], vals[i])

\* indexes strictly between the array ends whose value is no larger than
\* either neighbour's
LocalMinima(vals) ==
  {i \in 1..(Length(vals) - 2) : NLe(vals[i], vals[i - 1]) /\ NLe(vals[i], vals[i + 1])}

MaxOf(S) == CHOOSE i \in S : \A j \in S : j <= i
MinOf(S) == CHOOSE i \in S : \A j \in S : i <= j

MinimaLeft(vals, peak) == {i \in LocalMinima(vals) : i < peak}
MinimaRight(vals, peak) == {i \in LocalMinima(vals) : i > peak}

\* the nearest minima are used: one on each side, at angles that bracket the peak
NullsChosen(angles, vals, peak) ==
  /\ MinimaLeft(vals, peak) # {} /\ MinimaRight(vals, peak) # {}
  /\ NLt(angles[MaxOf(MinimaLeft(vals, peak))], angles[peak])
  /\ NGt(angles[MinOf(MinimaRight(vals, peak))], angles[peak])

\* the half-power crossing on one side, or the first/last angle when the
\* peak is the first/last sample
CrossingLeft(angles, vals, peak) ==
  IF peak = 0 THEN angles[0]
  ELSE findCross(angles, vals, NMul(vals[peak], Fin(<<1, 2>>)), peak, -1)

CrossingRight(angles, vals, peak) ==
  IF peak = Length(vals) - 1 THEN angles[Length(vals) - 1]
  ELSE findCross(angles, vals, NMul(vals[peak], Fin(<<1, 2>>)), peak, 1)

\* [left, right]: the main-lobe boundaries
Boundaries(angles, vals, peak) ==
  IF NullsChosen(angles, vals, peak)
  THEN [left |-> angles[MaxOf(MinimaLeft(vals, peak))],
        right |-> angles[MinOf(MinimaRight(vals, peak))]]
  ELSE [left |-> CrossingLeft(angles, vals, peak), right |-> CrossingRight(angles, vals, peak)]

\* P(angles, vals, peak, b) of the points of the call in angle order: their
\* angles, their intensities, the index of the peak and the boundaries
OfCallSamples(P(_, _, _, _)) ==
  \A pts \in {SortedByAngle(call.pointsIn)} :
    \A angles \in {[i \in DOMAIN pts |-> pts[i].angleDeg]},
       vals \in {[i \in DOMAIN pts |-> FiniteIntensity(pts[i])]} :
      \A peak \in {FirstLargest(vals)} :
        \A b \in {Boundaries(angles, vals, peak)} : P(angles, vals, peak, b)

StatsCallWithPeak == call.op = "computePatternStats" /\ PeakIsPositive(call.pointsIn)

OutsideMainLobe(angles, b) ==
  {i \in DOMAIN angles :
     ~(NGe(angles[i], NSub(b.left, Tiny(2))) /\ NLe(angles[i], NAdd(b.right, Tiny(2))))}

\* the largest of vals over the indexes S, 0 for no index
LargestOver(vals, S) ==
  IF S = {} THEN Int2Num(0)
  ELSE vals[CHOOSE i \in S : \A j \in S : NLe(vals[j], vals[i])]

\* C23: for a pattern with peak > 0, pslLin is the largest intensity over
\* exactly the points whose angle lies outside [left - 1e-12, right + 1e-12]
\* (points at the boundary angles belong to the main lobe);
\* pslDb = 10 * log10(pslLin / peak) when pslLin > 0, and pslDb = -Infinity
\* (not null) with pslLin = 0 when no point lies outside the main lobe or
\* every outside point is 0.
C23_PeakSidelobe ==
  StatsCallWithPeak =>
    OfCallSamples(LAMBDA angles, vals, peak, b :
      \A psl \in {LargestOver(vals, OutsideMainLobe(angles, b))} :
        /\ call.result.pslLin = psl
        /\ IF NGt(psl, Int2Num(0))
           THEN call.result.pslDb =
                  NMul(Int2Num(10), MathLog10(NDiv(psl, vals[peak])))
           ELSE call.result.pslLin = Int2Num(0) /\ call.result.pslDb = NInf)

\* the point at the right boundary (30 degrees, intensity 1/2) belongs to
\* the main lobe: the peak sidelobe is 1/4
C23_Witness ==
  /\ StatsCallWithPeak
  /\ OfCallSamples(LAMBDA angles, vals, peak, b :
        /\ b.right = Int2Num(30)
        /\ \E i \in DOMAIN angles : angles[i] = b.right /\ vals[i] = Fin(<<1, 2>>)
        /\ OutsideMainLobe(angles, b) # {})
  /\ call.result.pslLin = Fin(<<1, 4>>)
  /\ IsFin(call.result.pslDb)
  /\ NLt(call.result.pslDb, Int2Num(0))

\* the samples of arr at the indexes S, in increasing order of index
SamplesAt(arr, S) ==
  [k \in 0..(Cardinality(S) - 1) |->
     arr[CHOOSE i \in S : Cardinality({j \in S : j < i}) = k]]

\* the trapezoidal area of the samples inside the main lobe
AreaInside(angles, vals, b) ==
  trapezoidalIntegrate(SamplesAt(angles, DOMAIN angles \ OutsideMainLobe(angles, b)),
                       SamplesAt(vals, DOMAIN angles \ OutsideMainLobe(angles, b)))

\* max(0, totalArea - mainArea)
SidelobeArea(angles, vals, mainArea) ==
  MathMax(Int2Num(0), NSub(trapezoidalIntegrate(angles, vals), mainArea))

C29_BoundariesInsideSweep ==
  StatsCallWithPeak =>
    OfCallSamples(LAMBDA angles, vals, peak, b :
      (\A i \in DOMAIN angles : IsFin(angles[i])) =>
        \A last \in {Length(angles) - 1} :
          /\ NLe(angles[0], b.left)
          /\ NLe(b.left, angles[peak])
          /\ NLe(angles[peak], b.right)
          /\ NLe(b.right, angles[last])
          /\ NLe(call.result.fwhmDeg, NSub(angles[last], angles[0])))

(***************************************************************************)
(* Calls of parseCsvConfig(csv) and of parseCsvConfig(toCsv(profile)).     *)
(***************************************************************************)
MaxLines == 3
MaxCsvElements == 2

\* lines a persisted text is made of: key,value lines, a comment that quotes
\* the header, a blank line, the header with blanks and a fifth column
\* around it, rows with four, two and one column
CommentedHeader == <<"#">> \o DataHeader
PaddedHeader == <<" ">> \o DataHeader \o <<",", "x", " ">>
FileLines ==
  {<<"e", "l", "e", "m", "e", "n", "t", "s", ",", "1">>,
   <<"e", "l", "e", "m", "e", "n", "t", "s", ",", "2", ",", "5">>,
   CommentedHeader,
   <<>>,
   PaddedHeader,
   <<"0", ",", "0", ".", "5", ",", "0", ",", "0">>,
   <<"#", ",", "w">>,
   <<"7">>}

LineBreaks == {<<"\n">>, <<"\r", "\n">>}

\* texts of up to MaxLines lines, and longer ones with a full configuration
CsvTexts ==
  {Join(ls, br) : ls \in UNION {[1..n -> FileLines] : n \in 0..MaxLines}, br \in LineBreaks}
    \cup {Join(<<<<"e", "l", "e", "m", "e", "n", "t", "s", ",", "1">>, DataHeader, <<"0", ",", "0", ".", "5", ",", "0", ",", "0">>, <<"#", ",", "w">>, <<"7">>>>, <<"\n">>),
          Join(<<<<"e", "l", "e", "m", "e", "n", "t", "s", ",", "1">>, <<"f", "o", "c", "u", "s", "D", "e", "p", "t", "h", ",">>, DataHeader, <<"0", ",", "0", ".", "5", ",", "0", ",", "0">>, <<>>, <<"#", ",", "w">>>>, <<"\r", "\n">>),
          Join(<<<<"e", "l", "e", "m", "e", "n", "t", "s", ",", "2", ",", "5">>, <<"e", "l", "e", "m", "e", "n", "t", "s", ",", "1">>, DataHeader, <<"0", ",", "0", ".", "5", ",", "0", ",", "0">>, <<"#", ",", "w">>, <<"0", ",", "0", ".", "5", ",", "0", ",", "0">>>>, <<"\n">>)}

CallParseCsvConfig ==
  /\ call = NoCall
  /\ pc = "idle"
  /\ \E csv \in CsvTexts :
       /\ call' = [op |-> "parseCsvConfig", csv |-> csv, result |-> parseCsvConfig(csv)]
       /\ UNCHANGED frameVars

\* numbers with a short decimal notation
CsvWeights == {Int2Num(0), Fin(<<1, 2>>), Fin(<<-2, 25>>)}
CsvDelays == {Int2Num(0), Fin(<<-1, 8>>)}

\* the phase column is one entry short, so that the last row reads undefined
MakeFullProfile(config, weights, tau) ==
  [config |-> config,
   snapshot |-> [weights |-> weights,
                 delays |-> [timeDelays |-> [i \in DOMAIN weights |-> tau],
                             phaseRadians |-> [i \in 0..(Length(weights) - 2) |-> tau]]]]

CsvConfigs(N) ==
  {[MakeSteeredConfig(N, Fin(<<1, 2>>), w[2], Fin(<<5, 2>>), Int2Num(1540), a, F, w[1], w[3])
      EXCEPT !.chebyshevSidelobeDb = db] :
     w \in {<<"hamming", "wavelength", <<>>>>,
            <<"custom", "meters", <<ArrayFill(N, Int2Num(1))>>>>},
     a \in {Int2Num(0), Fin(<<-61, 2>>)},
     F \in {<<>>, <<Int2Num(0)>>, <<Fin(<<1, 4>>)>>},
     db \in {<<>>, <<Int2Num(30)>>}}

\* profiles with elements >= 1 and as many weights as elements
FullProfiles ==
  UNION {{MakeFullProfile(config, weights, tau) :
            config \in CsvConfigs(N), tau \in CsvDelays, weights \in [0..(N - 1) -> CsvWeights]}
         : N \in 1..MaxCsvElements}

CallRoundTrip ==
  /\ call = NoCall
  /\ pc = "idle"
  /\ \E profile \in FullProfiles :
       /\ \E csv \in {toCsv(profile)} :
            call' = [op |-> "roundTrip", profile |-> profile, csv |-> csv,
                     result |-> parseCsvConfig(csv)]
       /\ UNCHANGED frameVars

NextCsv == CallParseCsvConfig \/ CallRoundTrip

SpecCsv == Init /\ [][NextCsv]_vars

\* some line of the text, trimmed, starts with the data header
HasHeaderLine(csv) ==
  \E k \in 1..Len(SplitLines(csv)) : StartsWith(Trim(SplitLines(csv)[k]), DataHeader)

\* C16: parseCsvConfig raises if and only if no line of the text, trimmed,
\* starts with "index,weight,phaseRadians,timeDelaySeconds"; with the header
\* present it returns a config and weights, whatever the other lines contain.
C16_RaisesIffNoHeader ==
  call.op = "parseCsvConfig" =>
    /\ call.result.threw <=> ~HasHeaderLine(call.csv)
    /\ HasHeaderLine(call.csv) =>
         DOMAIN call.result = {"threw", "config", "weights"}

\* a text whose header is padded, follows a comment quoting the header and a
\* malformed key line, and is parsed to a result
C16_Witness ==
  /\ call.op = "parseCsvConfig"
  /\ Len(SplitLines(call.csv)) = 3
  /\ SplitLines(call.csv)[1] = CommentedHeader
  /\ SplitLines(call.csv)[2] = <<"7">>
  /\ SplitLines(call.csv)[3] = PaddedHeader
  /\ ~call.result.threw
  /\ call.result.weights = EmptyArray

\* C17: parseCsvConfig(toCsv(profile)), for a profile with elements >= 1 and
\* as many weights as elements, returns a config whose elements, spacing,
\* spacingUnit, frequencyHz, waveSpeed, steerAngleDeg, windowType, focusDepth
\* (absent stays absent) and chebyshevSidelobeDb equal those of
\* profile.config, and weights equal to profile.snapshot.weights in order.
C17_RoundTrip ==
  call.op = "roundTrip" =>
    LET cfg == call.profile.config
        out == call.result
    IN  /\ ~out.threw
        /\ NEq(out.config.elements, Int2Num(cfg.elements))
        /\ NEq(out.config.spacing, cfg.spacing)
        /\ out.config.spacingUnit = Chars(cfg.spacingUnit)
        /\ NEq(out.config.frequencyHz, cfg.frequencyHz)
        /\ NEq(out.config.waveSpeed, cfg.waveSpeed)
        /\ NEq(out.config.steerAngleDeg, cfg.steerAngleDeg)
        /\ out.config.windowType = Chars(cfg.windowType)
        /\ out.config.focusDepth = cfg.focusDepth
        /\ out.config.chebyshevSidelobeDb = cfg.chebyshevSidelobeDb
        /\ Length(out.weights) = cfg.elements
        /\ \A i \in DOMAIN out.weights : NEq(out.weights[i], call.profile.snapshot.weights[i])

\* a two-element profile steered to -30.5 degrees with focusDepth 0, a
\* negative fractional weight and a missing phase has made the round trip
C17_Witness ==
  /\ call.op = "roundTrip"
  /\ call.profile.config.elements = 2
  /\ call.profile.config.focusDepth = <<Int2Num(0)>>
  /\ call.profile.config.chebyshevSidelobeDb = <<>>
  /\ call.profile.config.steerAngleDeg = Fin(<<-61, 2>>)
  /\ call.profile.snapshot.weights[1] = Fin(<<-2, 25>>)
  /\ call.result.config.focusDepth = <<Int2Num(0)>>
  /\ call.result.config.steerAngleDeg = Fin(<<-61, 2>>)
  /\ call.result.weights[1] = Fin(<<-2, 25>>)

\* the weights of the rows after the header line: every line that is not
\* blank and has a second column, in file order
RECURSIVE RecoveredWeights(_)
RecoveredWeights(rows) ==
  IF rows = <<>> THEN <<>>
  ELSE LET cols == Split(Trim(Head(rows)), ",")
       IN  (IF Len(cols) >= 2 THEN <<StringToNumber(cols[2])>> ELSE <<>>)
             \o RecoveredWeights(Tail(rows))

\* the lines after the first header line
RowsAfterHeader(csv) ==
  LET lines == SplitLines(csv)
      isHeader(k) == StartsWith(Trim(lines[k]), DataHeader)
      h == CHOOSE k \in 1..Len(lines) : isHeader(k) /\ \A j \in 1..(k - 1) : ~isHeader(j)
  IN  SubSeq(lines, h + 1, Len(lines))

\* no key,value line before the header sets the key elements
ElementsKeyAbsent(csv) == MapGet(ScanHeader(SplitLines(csv), 0, <<>>).map, "elements") = <<>>

\* C18 as stated: config.customWeights is the list of recovered weights if
\* the number of parsed data rows equals the parsed elements value, and is
\* undefined otherwise (fewer rows, more rows, or elements key absent); the
\* returned weights are every recovered weight in file row order.
C18_CustomWeightsAsStated ==
  (call.op = "parseCsvConfig" /\ ~call.result.threw) =>
    LET out == call.result
        recovered == ToArray(RecoveredWeights(RowsAfterHeader(call.csv)))
    IN  /\ out.weights = recovered
        /\ out.config.customWeights =
             IF NEq(Int2Num(Length(recovered)), out.config.elements)
                  /\ ~ElementsKeyAbsent(call.csv)
             THEN <<recovered>> ELSE <<>>

\* C18, amended: config.customWeights is the list of recovered weights if the
\* number of parsed data rows equals the parsed elements value, and is
\* undefined otherwise; an absent elements key is read as elements = 0 (so
\* customWeights is the empty list when no row follows the header); the
\* returned weights are every recovered weight in file row order.
C18_CustomWeightsIffCountMatches ==
  (call.op = "parseCsvConfig" /\ ~call.result.threw) =>
    LET out == call.result
        recovered == ToArray(RecoveredWeights(RowsAfterHeader(call.csv)))
    IN  /\ out.weights = recovered
        /\ out.config.customWeights =
             IF NEq(Int2Num(Length(recovered)), out.config.elements)
             THEN <<recovered>> ELSE <<>>
        /\ ElementsKeyAbsent(call.csv) => NEq(out.config.elements, Int2Num(0))

\* elements is 1 and two rows follow the header: weights holds both, and
\* customWeights is undefined
C18_Witness ==
  /\ call.op = "parseCsvConfig"
  /\ ~call.result.threw
  /\ call.result.config.elements = Int2Num(1)
  /\ Length(call.result.weights) = 2
  /\ call.result.weights[0] = Fin(<<1, 2>>)
  /\ IsNaN(call.result.weights[1])
  /\ call.result.config.customWeights = <<>>

(***************************************************************************)
(* One run of runFrame(cfg, generator, beamformer).                        *)
(***************************************************************************)
GeneratorConfigs ==
  {[offset |-> Int2Num(30), speed |-> Int2Num(1), frequencyHz |-> Fin(<<1, 4>>),
    amplitude |-> <<>>, phase0 |-> <<>>],
   [offset |-> Int2Num(0), speed |-> Int2Num(0), frequencyHz |-> Fin(<<1, 2>>),
    amplitude |-> <<Int2Num(2)>>, phase0 |-> <<Fin(PI)>>]}

\* createPointSourceGenerator(config), in its two variants
Generators == {[variant |-> v, config |-> g] : v \in {"A", "B"}, g \in GeneratorConfigs}

\* createSumBeamformer(), createDelayAndSumBeamformer(), createDelayAndSumApodizedBeamformer(opts)
Beamformers ==
  {[kind |-> "sum", opts |-> <<>>], [kind |-> "delay", opts |-> <<>>],
   [kind |-> "delay-apod", opts |-> [windowType |-> <<>>, chebyshevSidelobeDb |-> <<>>]]}

FrameConfigs ==
  {MakeConfig(dt, Int2Num(1), L, type, <<Int2Num(-30), Int2Num(30)>>, samples, elements,
              Int2Num(1)) :
     dt \in TimeSteps, L \in 1..MaxScanLines, type \in ScanTypes,
     samples \in {MaxSamples}, elements \in {MaxElements - 1, MaxElements}}

generateScanline(gen, scanlineIndex, cfg) ==
  IF gen.variant = "A" THEN generateScanlineA(gen.config, scanlineIndex, cfg)
  ELSE generateScanlineB(gen.config, scanlineIndex, cfg)

beamform(bf, matrix, scanlineIndex, cfg) ==
  CASE bf.kind = "sum" -> SumBeamform(matrix, scanlineIndex, cfg)
    [] bf.kind = "delay" -> DelayAndSumBeamform(matrix, scanlineIndex, cfg)
    [] OTHER -> DelayAndSumApodizedBeamform(bf.opts, matrix, scanlineIndex, cfg)

(* The heap is the sequence of arrays allocated so far; an array's address *)
(* is its position.  A matrix is an array of the addresses of its rows.    *)
\* matrix = new Array(samples); matrix[s] = new Array(elements); then filled
AllocateMatrix(h, contents) ==
  LET samples == Length(contents)
      ref == Len(h) + 1
  IN  [ref |-> ref,
       heap |-> h \o <<[s \in 0..(samples - 1) |-> ref + 1 + s]>>
                  \o [k \in 1..samples |-> contents[k - 1]]]

\* the [samples][elements] contents of the matrix at address ref
Deref(h, ref) == [s \in DOMAIN h[ref] |-> h[h[ref][s]]]

\* an array slot never assigned (new Array(L))
Hole == [k |-> "hole", r |-> RZero, t |-> RZero]

\* the result stored one slot further on
StoreResultShifted(out, i, bf) == [out EXCEPT ![(i + 1) % Length(out)] = bf]

\* out[i] = bf
StoreResult(out, i, bf) == [out EXCEPT ![i] = bf]

StartFrame ==
  /\ pc = "idle"
  /\ call = NoCall
  /\ \E cfg \in FrameConfigs, gen \in Generators, bf \in Beamformers :
       frame' = [cfg |-> cfg, generator |-> gen, beamformer |-> bf,
                 L |-> cfg.scanning.numScanLines, i |-> 0,
                 out |-> ArrayFill(cfg.scanning.numScanLines, Hole),
                 params |-> ArrayFill(cfg.scanning.numScanLines, Hole),
                 raw |-> 0, result |-> <<>>]
  /\ pc' = "param"
  /\ UNCHANGED <<call, heap, trace, page>>

\* params[i] = scanlineParam(cfg, i)
ComputeParam ==
  /\ pc = "param"
  /\ frame.i < frame.L
  /\ frame' = [frame EXCEPT !.params[frame.i] = scanlineParam(frame.cfg, frame.i)]
  /\ pc' = "generate"
  /\ UNCHANGED <<call, heap, trace, page>>

\* const raw = generator.generateScanline(i, cfg)
Generate ==
  /\ pc = "generate"
  /\ \E m \in {AllocateMatrix(heap, generateScanline(frame.generator, frame.i, frame.cfg))} :
       /\ heap' = m.heap
       /\ frame' = [frame EXCEPT !.raw = m.ref]
       /\ trace' = Append(trace, [fn |-> "generateScanline", index |-> frame.i,
                                  ref |-> m.ref, value |-> <<>>])
  /\ pc' = "beamform"
  /\ UNCHANGED <<call, page>>

\* const bf = beamformer.beamform(raw, i, cfg); out[i] = bf; i++
Beamform ==
  /\ pc = "beamform"
  /\ \E res \in {beamform(frame.beamformer, Deref(heap, frame.raw), frame.i, frame.cfg)} :
       /\ trace' = Append(trace, [fn |-> "beamform", index |-> frame.i, ref |-> frame.raw,
                                  value |-> IF res.threw THEN <<>> ELSE <<res.value>>])
       /\ IF res.threw
          THEN /\ pc' = "thrown"
               /\ UNCHANGED frame
          ELSE /\ pc' = "param"
               /\ frame' = [frame EXCEPT !.out = StoreResult(frame.out, frame.i, res.value),
                                         !.i = frame.i + 1]
  /\ UNCHANGED <<call, heap, page>>

\* return { beamformed: out, scanParams: params }
Return ==
  /\ pc = "param"
  /\ ~(frame.i < frame.L)
  /\ frame' = [frame EXCEPT !.result = <<[beamformed |-> frame.out, scanParams |-> frame.params]>>]
  /\ pc' = "returned"
  /\ UNCHANGED <<call, heap, trace, page>>

NextFrame == StartFrame \/ ComputeParam \/ Generate \/ Beamform \/ Return

SpecFrame == Init /\ [][NextFrame]_vars

\* the config with windowType replaced by "hamming"
AsHamming(cfg) == [cfg EXCEPT !.windowType = "hamming"]

UsableCustomWeights(cfg) ==
  cfg.customWeights # <<>> /\ Length(cfg.customWeights[1]) = cfg.elements

\* C9 as stated: with windowType "custom", custom weights of length elements
\* are returned divided by their maximum absolute value; missing custom
\* weights or ones of another length raise no error and give what
\* computeWeights gives for windowType "hamming"; the result has length
\* elements.
C9_CustomWeightsAsStated ==
  (call.op = "computeWeights" /\ call.cfg.windowType = "custom") =>
    LET cfg == call.cfg
        N == cfg.elements
    IN  /\ DOMAIN call.result = 0..(N - 1)
        /\ IF UsableCustomWeights(cfg)
           THEN LET cw == cfg.customWeights[1]
                IN  \A i \in 0..(N - 1) : call.result[i] = NDiv(cw[i], MaxAbs(cw))
           ELSE call.result = computeWeights(AsHamming(cfg))

\* C9 amended: with windowType "custom", custom weights of length elements
\* are returned divided by their maximum absolute value when that maximum
\* is positive and unchanged when they are all zero; missing custom weights
\* or ones of another length raise no error and give what computeWeights
\* gives for windowType "hamming"; the result has length elements.
C9_CustomWeights ==
  (call.op = "computeWeights" /\ call.cfg.windowType = "custom") =>
    LET cfg == call.cfg
        N == cfg.elements
    IN  /\ DOMAIN call.result = 0..(N - 1)
        /\ \A i \in 0..(N - 1) : ~Threw(call.result[i])
        /\ IF UsableCustomWeights(cfg)
           THEN LET cw == cfg.customWeights[1]
                IN  IF NGt(MaxAbs(cw), Int2Num(0))
                    THEN \A i \in 0..(N - 1) : call.result[i] = NDiv(cw[i], MaxAbs(cw))
                    ELSE call.result = cw
           ELSE call.result = computeWeights(AsHamming(cfg))

\* custom weights of the wrong length, replaced by a non-uniform Hamming window
C9_Witness ==
  /\ call.op = "computeWeights"
  /\ call.cfg.windowType = "custom"
  /\ call.cfg.elements = 3
  /\ call.cfg.customWeights # <<>>
  /\ Length(call.cfg.customWeights[1]) = 4
  /\ call.result[0] = Fin(<<2, 25>>)
  /\ call.result[1] = Int2Num(1)

\* C10: for each of the window types rectangular, hamming, triangular and
\* chebyshev and each size N in {1, 2, 8}, the largest |makeWindow(type, N)[i]|
\* is 1 and the window is not all zero.
C10_WindowsPeakAtOne ==
  (/\ call.op = "makeWindow"
   /\ call.type \in {"rectangular", "hamming", "triangular", "chebyshev"}
   /\ call.N \in {1, 2, 8}) =>
    /\ MaxAbs(call.result) = Int2Num(1)
    /\ \E i \in DOMAIN call.result : call.result[i] # Int2Num(0)

\* C11: for every N >= 1 and every sidelobeDb, the Chebyshev window is
\* symmetric: chebyshevWindow(N, db)[i] == chebyshevWindow(N, db)[N - 1 - i]
\* for all i in 0..N-1 (== as the numbers compare, NaN equal to nothing).
C11_ChebyshevSymmetric ==
  (call.op = "makeWindow" /\ call.type = "chebyshev") =>
    /\ DOMAIN call.result = 0..(call.N - 1)
    /\ \A i \in 0..(call.N - 1) : NEq(call.result[i], call.result[call.N - 1 - i])

\* the weights of cfg before the final normalisation of computeWeights
WindowBeforeNormalisation(cfg) ==
  IF cfg.windowType = "custom" /\ UsableCustomWeights(cfg) THEN cfg.customWeights[1]
  ELSE makeWindow(IF cfg.windowType = "custom" THEN "hamming" ELSE cfg.windowType,
                  cfg.elements, Nullish(cfg.chebyshevSidelobeDb, Int2Num(30)))

DividedByMaxAbs(result, w) ==
  /\ DOMAIN result = DOMAIN w
  /\ \A i \in DOMAIN w : result[i] = NDiv(w[i], MaxAbs(w))
  /\ MaxAbs(result) = Int2Num(1)

\* C21 as stated: computeWeights divides the weights by their maximum
\* absolute value, so that max|w| = 1, except that weights that are all <= 0
\* (all negative, or all zero) are returned unchanged.
C21_NormalisedUnlessNonPositive ==
  call.op = "computeWeights" =>
    LET w == WindowBeforeNormalisation(call.cfg)
    IN  IF \A i \in DOMAIN w : NLe(w[i], Int2Num(0))
        THEN call.result = w
        ELSE DividedByMaxAbs(call.result, w)

\* C21 amended: computeWeights divides the weights by their maximum absolute
\* value, so that max|w| = 1, whenever that maximum is > 0 (weights that are
\* all negative included); weights that are all zero are returned unchanged.
C21_NormalisedUnlessZero ==
  call.op = "computeWeights" =>
    LET w == WindowBeforeNormalisation(call.cfg)
    IN  IF \A i \in DOMAIN w : w[i] = Int2Num(0)
        THEN call.result = w
        ELSE DividedByMaxAbs(call.result, w)

\* custom weights -2, -3, -4 come back as -1/2, -3/4, -1
C21_Witness ==
  /\ call.op = "computeWeights"
  /\ call.cfg.windowType = "custom"
  /\ call.cfg.elements = 3
  /\ UsableCustomWeights(call.cfg)
  /\ call.cfg.customWeights[1][0] = Int2Num(-2)
  /\ call.result[0] = Fin(<<-1, 2>>)
  /\ call.result[1] = Fin(<<-3, 4>>)
  /\ call.result[2] = Int2Num(-1)

(***************************************************************************)
(* Properties of runFrame and of the generators it calls.                  *)
(***************************************************************************)
\* C1: runFrame calls generateScanline(i, cfg) once for each i in 0..L-1 in
\* ascending order, hands the matrix generated for i to beamform with that
\* same i before it generates i + 1, and returns beamformed and scanParams
\* of length L with beamformed[i] the vector returned for i and
\* scanParams[i] = scanlineParam(cfg, i).
C1_FrameOrderAndPlacement ==
  pc # "idle" =>
    /\ Len(trace) <= 2 * frame.L
    /\ \A k \in 1..Len(trace) :
         /\ trace[k].index = (k - 1) \div 2
         /\ trace[k].fn = IF k % 2 = 1 THEN "generateScanline" ELSE "beamform"
         /\ k % 2 = 0 => trace[k].ref = trace[k - 1].ref
    /\ pc \in {"param", "generate"} => Len(trace) = 2 * frame.i
    /\ pc = "beamform" => Len(trace) = 2 * frame.i + 1
    /\ pc = "returned" =>
         LET result == frame.result[1]
         IN  /\ Len(trace) = 2 * frame.L
             /\ DOMAIN result.beamformed = 0..(frame.L - 1)
             /\ DOMAIN result.scanParams = 0..(frame.L - 1)
             /\ \A i \in 0..(frame.L - 1) :
                  /\ <<result.beamformed[i]>> = trace[2 * i + 2].value
                  /\ result.scanParams[i] = scanlineParam(frame.cfg, i)

\* a returned frame of three scanlines whose beamformed vectors differ
C1_Witness ==
  /\ pc = "returned"
  /\ frame.L = 3
  /\ frame.beamformer.kind = "delay"
  /\ frame.cfg.scanning.type = "phased"
  /\ frame.result[1].beamformed[0] # frame.result[1].beamformed[2]
  /\ frame.result[1].scanParams[2] = Int2Num(30)

\* the addresses of the arrays that make up the matrix at ref
MatrixCells(h, ref) == {ref} \cup {h[ref][s] : s \in DOMAIN h[ref]}

GenerateEvents == {k \in 1..Len(trace) : trace[k].fn = "generateScanline"}

\* C7: for a fixed generator config and DynamicBeamformingConfig, either
\* generator variant returns the same [samples][elements] matrix for every
\* scanlineIndex, and every call returns a freshly allocated matrix that
\* shares no row with an earlier result.
C7_GeneratorIgnoresScanline ==
  \A k \in GenerateEvents :
    LET m == Deref(heap, trace[k].ref)
    IN  /\ DOMAIN m = 0..(frame.cfg.scanning.samples - 1)
        /\ \A s \in DOMAIN m : DOMAIN m[s] = 0..(frame.cfg.array.elements - 1)
        /\ \A j \in GenerateEvents :
             j < k =>
               /\ trace[j].index # trace[k].index
               /\ Deref(heap, trace[j].ref) = m
               /\ MatrixCells(heap, trace[j].ref) \cap MatrixCells(heap, trace[k].ref) = {}

\* two scanlines generated by the second variant, the matrix not constant
C7_Witness ==
  /\ pc # "idle"
  /\ frame.generator.variant = "B"
  /\ frame.cfg.timeStep # Int2Num(0)
  /\ Cardinality(GenerateEvents) >= 2
  /\ \E k \in GenerateEvents :
       LET m == Deref(heap, trace[k].ref) IN m[0] # m[1]

(***************************************************************************)
(* hilbertAnalytic and its in-place radix-2 fft.                           *)
(***************************************************************************)
\* M = 1 << Math.ceil(Math.log2(Math.max(1, N)))
RECURSIVE NextPow2(_)
NextPow2(N) == IF N <= 1 THEN 1 ELSE 2 * NextPow2((N + 1) \div 2)

\* where the bit-reversal permutation of fft takes index i of n
RECURSIVE BitReversed(_, _)
BitReversed(i, n) == IF n <= 1 THEN 0 ELSE (i % 2) * (n \div 2) + BitReversed(i \div 2, n \div 2)

\* (wRe, wIm) at step j of the inner loop of a stage
RECURSIVE Twiddle(_, _, _)
Twiddle(len, inverse, j) ==
  IF j = 0 THEN <<Int2Num(1), Int2Num(0)>>
  ELSE LET ang == NMul(NDiv(NMul(Int2Num(2), Fin(PI)), Int2Num(len)),
                       Int2Num(IF inverse THEN -1 ELSE 1))
           w == Twiddle(len, inverse, j - 1)
       IN  <<NSub(NMul(w[1], MathCos(ang)), NMul(w[2], MathSin(ang))),
             NAdd(NMul(w[1], MathSin(ang)), NMul(w[2], MathCos(ang)))>>

\* (vRe, vIm): the sample at q times the twiddle factor w
Twiddled(c, q, w) ==
  <<NSub(NMul(c.re[q], w[1]), NMul(c.im[q], w[2])),
    NAdd(NMul(c.re[q], w[2]), NMul(c.im[q], w[1]))>>

\* one pass of the butterflies of length len over c = [re, im]
FftStage(c, len, inverse) ==
  [re |-> [p \in DOMAIN c.re |->
             IF p % len < len \div 2
             THEN NAdd(c.re[p],
                       Twiddled(c, p + len \div 2, Twiddle(len, inverse, p % len))[1])
             ELSE NSub(c.re[p - len \div 2],
                       Twiddled(c, p, Twiddle(len, inverse, (p % len) - len \div 2))[1])],
   im |-> [p \in DOMAIN c.im |->
             IF p % len < len \div 2
             THEN NAdd(c.im[p],
                       Twiddled(c, p + len \div 2, Twiddle(len, inverse, p % len))[2])
             ELSE NSub(c.im[p - len \div 2],
                       Twiddled(c, p, Twiddle(len, inverse, (p % len) - len \div 2))[2])]]

RECURSIVE FftStages(_, _, _)
FftStages(c, len, inverse) ==
  IF len > Length(c.re) THEN c ELSE FftStages(FftStage(c, len, inverse), 2 * len, inverse)

\* the bit-reversal permutation at the start of fft
FftPermuted(re, im) ==
  [re |-> [i \in DOMAIN re |-> re[BitReversed(i, Length(re))]],
   im |-> [i \in DOMAIN im |-> im[BitReversed(i, Length(re))]]]

\* if (inverse) { re[i] /= n; im[i] /= n }
FftScaled(c, inverse) ==
  IF inverse
  THEN [re |-> [i \in DOMAIN c.re |-> NDiv(c.re[i], Int2Num(Length(c.re)))],
        im |-> [i \in DOMAIN c.im |-> NDiv(c.im[i], Int2Num(Length(c.re)))]]
  ELSE c

\* the contents of re and im after fft(re, im, inverse)
fft(re, im, inverse) ==
  IF Length(re) <= 1 THEN [re |-> re, im |-> im]
  ELSE FftScaled(FftStages(FftPermuted(re, im), 2, inverse), inverse)

\* Math.hypot
MathHypot(a, b) == MathSqrt(NAdd(NMul(a, a), NMul(b, b)))

\* re = x padded with zeros to length M
HilbertPadded(x, M) == [i \in 0..(M - 1) |-> IF i < Length(x) THEN x[i] ELSE Int2Num(0)]

\* gains that double the Nyquist bin as well
HilbertGainsDoubledNyquist(M) ==
  [k \in 0..(M - 1) |->
     IF k = 0 THEN Int2Num(1) ELSE IF 2 * k <= M THEN Int2Num(2) ELSE Int2Num(0)]

\* Hre: 1 at k = 0 and at the Nyquist bin, 2 at the positive frequencies, else 0
HilbertGains(M) ==
  [k \in 0..(M - 1) |->
     IF k >= 1 /\ 2 * k < M THEN Int2Num(2)
     ELSE IF k = 0 \/ (M % 2 = 0 /\ 2 * k = M) THEN Int2Num(1)
     ELSE Int2Num(0)]

\* re[k] = a * c - b * d; im[k] = a * d + b * c
HilbertFiltered(F, Hre, Him) ==
  [re |-> [k \in DOMAIN F.re |-> NSub(NMul(F.re[k], Hre[k]), NMul(F.im[k], Him[k]))],
   im |-> [k \in DOMAIN F.re |-> NAdd(NMul(F.re[k], Him[k]), NMul(F.im[k], Hre[k]))]]

\* outRe, outIm, env from re, im after the inverse fft
HilbertOutputs(N, B, Hre, Him) ==
  [re |-> B.re, im |-> B.im, Hre |-> Hre, Him |-> Him,
   outRe |-> [i \in 0..(N - 1) |-> B.re[i]],
   outIm |-> [i \in 0..(N - 1) |-> B.im[i]],
   env |-> [i \in 0..(N - 1) |-> MathHypot(B.re[i], B.im[i])]]

HilbertOfFiltered(N, G, Hre, Him) == HilbertOutputs(N, fft(G.re, G.im, TRUE), Hre, Him)

HilbertOfSpectrum(N, F, Hre, Him) ==
  HilbertOfFiltered(N, HilbertFiltered(F, Hre, Him), Hre, Him)

HilbertOfSize(x, M) ==
  HilbertOfSpectrum(Length(x), fft(HilbertPadded(x, M), ArrayFill(M, Int2Num(0)), FALSE),
                    HilbertGains(M), ArrayFill(M, Int2Num(0)))

\* the arrays hilbertAnalytic(x) makes, as they are when it returns
hilbertArrays(x) == HilbertOfSize(x, NextPow2(Length(x)))

\* return { real: outRe, imag: outIm, envelope: env }
HilbertResult(a) == [real |-> a.outRe, imag |-> a.outIm, envelope |-> a.env]

hilbertAnalytic(x) == HilbertResult(hilbertArrays(x))

(***************************************************************************)
(* The core functions as they act on the heap: the arrays they are given   *)
(* are addresses, every array they make is a new address, and a write goes *)
(* to the address the code writes to.  Each gives the heap when it         *)
(* returns and the addresses of the arrays it returns.                     *)
(***************************************************************************)
Alloc(h, arr) == [ref |-> Len(h) + 1, heap |-> Append(h, arr)]

\* a slice that hands back the array it was given
SliceAlias(h, ref) == [ref |-> ref, heap |-> h]

\* pointsIn.slice(), [...cw]: a new array with the same elements
Slice(h, ref) == Alloc(h, h[ref])

\* angles and vals are new arrays; the other arrays of the function are built
\* from angles and vals
StatsOnSorted(sorted, pts) ==
  [heap |-> sorted \o <<[i \in DOMAIN pts |-> pts[i].angleDeg],
                        [i \in DOMAIN pts |->
                           IF IsFin(pts[i].intensityLin) THEN pts[i].intensityLin
                           ELSE Int2Num(0)]>>,
   refs |-> {}, value |-> StatsOfSorted(pts)]

\* .sort(...) sorts the array at ref in place
SortOn(h, ref) == [h EXCEPT ![ref] = SortedByAngle(@)]

StatsOnHeap(sorted, ref) == StatsOnSorted(sorted, sorted[ref])

StatsOnCopy(copy) == StatsOnHeap(SortOn(copy.heap, copy.ref), copy.ref)

\* pts = pointsIn.slice().sort(...)
computePatternStatsOn(h, pointsIn) ==
  IF Length(h[pointsIn]) = 0 THEN [heap |-> h, refs |-> {}, value |-> AllNullStats]
  ELSE StatsOnCopy(Slice(h, pointsIn))

\* the configuration with the customWeights array in place of its address
ConfigOn(h, cfg) ==
  [cfg EXCEPT !.customWeights = IF @ = <<>> THEN <<>> ELSE <<h[@[1]]>>]

\* w.map(Math.abs) is a new array; w.map(v => v / maxVal) is a new array
NormalisedOn(w, wv, maxVal) ==
  IF NGt(maxVal, Int2Num(0))
  THEN Alloc(Append(w.heap, [i \in DOMAIN wv |-> NAbs(wv[i])]),
             [i \in DOMAIN wv |-> NDiv(wv[i], maxVal)])
  ELSE [ref |-> w.ref, heap |-> Append(w.heap, [i \in DOMAIN wv |-> NAbs(wv[i])])]

WeightsOnWindow(w, wv) == NormalisedOn(w, wv, MaxAbs(wv))

WeightsOn(w) == WeightsOnWindow(w, w.heap[w.ref])

computeWeightsOn(h, cfg) ==
  WeightsOn(IF cfg.windowType = "custom"
            THEN IF cfg.customWeights # <<>> /\ Length(h[cfg.customWeights[1]]) = cfg.elements
                 THEN Slice(h, cfg.customWeights[1])
                 ELSE Alloc(h, makeWindow("hamming", cfg.elements,
                                          Nullish(cfg.chebyshevSidelobeDb, Int2Num(30))))
            ELSE Alloc(h, makeWindow(cfg.windowType, cfg.elements,
                                     Nullish(cfg.chebyshevSidelobeDb, Int2Num(30)))))

\* { weights, delays }: timeDelays and phaseRadians are new arrays
ProfileOn(weights, delays) ==
  [heap |-> weights.heap \o <<delays.timeDelays, delays.phaseRadians>>,
   refs |-> {weights.ref, Len(weights.heap) + 1, Len(weights.heap) + 2}]

computeProfileOn(h, cfg) ==
  ProfileOn(computeWeightsOn(h, cfg), computeDelays(ConfigOn(h, cfg)))

\* raw and the returned array of points are new arrays
PatternOn(w, raw, pattern) ==
  [heap |-> w.heap \o <<raw, pattern>>, refs |-> {Len(w.heap) + 2}]

RawOn(cfg, angles) ==
  [j \in DOMAIN angles |-> [angleDeg |-> angles[j], I |-> RawIntensity(cfg, angles[j])]]

computePatternOn(h, cfg, anglesDeg) ==
  PatternOn(computeWeightsOn(h, cfg), RawOn(ConfigOn(h, cfg), h[anglesDeg]),
            computePattern(ConfigOn(h, cfg), h[anglesDeg], TRUE))

BeamformedOn(h, res) ==
  IF res.threw THEN [heap |-> h, refs |-> {}]
  ELSE [heap |-> Append(h, res.value), refs |-> {Len(h) + 1}]

\* beamform(matrix, scanlineIndex, cfg): out is a new array; nothing is
\* written to the matrix or its rows
beamformOn(h, bf, matrix, scanlineIndex, cfg) ==
  BeamformedOn(h, beamform(bf, Deref(h, matrix), scanlineIndex, cfg))

HilbertOn(h, a) ==
  [heap |-> h \o <<a.re, a.im, a.Hre, a.Him, a.outRe, a.outIm, a.env>>,
   refs |-> {Len(h) + 5, Len(h) + 6, Len(h) + 7}]

\* re, im, Hre, Him, outRe, outIm and env are new arrays; fft writes to re
\* and im only
hilbertAnalyticOn(h, x) == HilbertOn(h, hilbertArrays(h[x]))

\* computeWeights returns the one array w
WeightsEffect(w) == [heap |-> w.heap, refs |-> {w.ref}]

MaxSignal == 3

Signals == UNION {[0..(n - 1) -> {Int2Num(0), Int2Num(1), Int2Num(-2)}] : n \in 0..MaxSignal}

\* configurations whose customWeights is the array at address 1, or absent
EffectConfigs ==
  {cfg \in {MakeSteeredConfig(N, Fin(<<1, 2>>), "wavelength", Int2Num(1), Int2Num(1),
                              Int2Num(30), F, type, cw) :
              N \in 1..MaxElements, F \in {<<>>, <<Int2Num(1)>>},
              type \in {"custom", "triangular"}, cw \in {<<>>, <<1>>}} :
     cfg.windowType = "custom" /\ cfg.customWeights = <<>> => cfg.elements \in HammingSizes}

EffectWeights == UNION {CustomWeightLists(n) : n \in 1..MaxElements}

\* the arrays at address 1 for cfg: of the right length, and of any length
\* (the hamming fallback) for the sizes of HammingSizes
EffectWeightsOf(cfg) ==
  IF cfg.elements \in HammingSizes THEN EffectWeights ELSE CustomWeightLists(cfg.elements)

\* a sweep from -30 degrees in steps of 30
EffectAngles == {[j \in 0..(MaxAngles - 1) |-> Int2Num(30 * j - 30)]}

\* patterns of up to two points, and the five-point sweeps
EffectPoints == UNION {[0..(n - 1) -> StatPoints] : n \in 0..2} \cup ReferencePatterns

Effect(fn, before, inputs, r) ==
  [op |-> "effects", fn |-> fn, before |-> before, inputs |-> inputs,
   after |-> r.heap, results |-> r.refs]

CallComputePatternStatsOn ==
  /\ call = NoCall
  /\ pc = "idle"
  /\ \E pointsIn \in EffectPoints :
       \E r \in {computePatternStatsOn(<<pointsIn>>, 1)} :
         call' = Effect("computePatternStats", <<pointsIn>>, {1}, r)
  /\ UNCHANGED frameVars

CallProfileOn ==
  /\ call = NoCall
  /\ pc = "idle"
  /\ \E cfg \in EffectConfigs, anglesDeg \in EffectAngles,
        fn \in {"computeWeights", "computeProfile", "computePattern"} :
       \E cw \in EffectWeightsOf(cfg) : \E before \in {<<cw, anglesDeg>>} :
         \E r \in {CASE fn = "computeWeights" -> WeightsEffect(computeWeightsOn(before, cfg))
                     [] fn = "computeProfile" -> computeProfileOn(before, cfg)
                     [] OTHER -> computePatternOn(before, cfg, 2)} :
           call' = Effect(fn, before, {1, 2}, r)
  /\ UNCHANGED frameVars

CallBeamformOn ==
  /\ call = NoCall
  /\ pc = "idle"
  /\ \E bf \in Beamformers, cfg \in FrameConfigs :
       \E contents \in Matrices(cfg.scanning.samples, cfg.array.elements) :
         \E m \in {AllocateMatrix(<<>>, contents)} :
           \E r \in {beamformOn(m.heap, bf, m.ref, 0, cfg)} :
             call' = Effect("beamform", m.heap, 1..Len(m.heap), r)
  /\ UNCHANGED frameVars

CallHilbertAnalyticOn ==
  /\ call = NoCall
  /\ pc = "idle"
  /\ \E x \in Signals :
       \E r \in {hilbertAnalyticOn(<<x>>, 1)} :
         call' = Effect("hilbertAnalytic", <<x>>, {1}, r)
  /\ UNCHANGED frameVars

HilbertCall == call.op = "effects" /\ call.fn = "hilbertAnalytic"

\* the arrays of a call of hilbertAnalytic(x): x is at address 1, and re, im,
\* Hre, Him, outRe, outIm, env are at the addresses 2 to 8
OfHilbertArrays(P(_, _, _, _, _)) ==
  \A x \in {call.before[1]}, Hre \in {call.after[4]}, Him \in {call.after[5]} :
    P(Length(x), Length(call.after[2]), Hre, Him,
      [real |-> call.after[6], imag |-> call.after[7], envelope |-> call.after[8]])

\* C25: hilbertAnalytic(x) of length N works on M = the smallest power of
\* two >= max(1, N) and multiplies bin k of the spectrum by a purely real
\* H[k] with H[0] = 1, H[M/2] = 1 when M is even, H[k] = 2 for
\* 1 <= k < M/2 and H[k] = 0 for k > M/2; real, imag and envelope each
\* have length exactly N.
C25_HilbertMultiplier ==
  HilbertCall =>
    OfHilbertArrays(LAMBDA N, M, Hre, Him, out :
      /\ \E e \in 0..(MaxSignal + 1) : M = 2 ^ e
      /\ M >= N /\ M >= 1
      /\ M > 1 => M \div 2 < N
      /\ Length(call.after[3]) = M /\ Length(Hre) = M /\ Length(Him) = M
      /\ \A k \in 0..(M - 1) :
           /\ Him[k] = Int2Num(0)
           /\ k = 0 => Hre[k] = Int2Num(1)
           /\ (M % 2 = 0 /\ 2 * k = M) => Hre[k] = Int2Num(1)
           /\ (1 <= k /\ 2 * k < M) => Hre[k] = Int2Num(2)
           /\ 2 * k > M => Hre[k] = Int2Num(0)
      /\ M = 1 => Hre = [k \in {0} |-> Int2Num(1)]
      /\ M = 2 => Hre = [k \in {0, 1} |-> Int2Num(1)]
      /\ Length(out.real) = N /\ Length(out.imag) = N /\ Length(out.envelope) = N
      /\ DOMAIN out.real = 0..(N - 1))

\* a signal of three samples: M = 4, H = [1, 2, 1, 0], three outputs
C25_Witness ==
  /\ HilbertCall
  /\ OfHilbertArrays(LAMBDA N, M, Hre, Him, out :
        /\ N = 3 /\ M = 4
        /\ Hre[0] = Int2Num(1) /\ Hre[1] = Int2Num(2)
        /\ Hre[2] = Int2Num(1) /\ Hre[3] = Int2Num(0)
        /\ Length(out.envelope) = 3)

NextEffects ==
  \/ CallComputePatternStatsOn
  \/ CallProfileOn
  \/ CallBeamformOn
  \/ CallHilbertAnalyticOn

SpecEffects == Init /\ [][NextEffects]_vars

\* C19: no core computation mutates its inputs: after computePatternStats,
\* computeWeights, computeProfile, computePattern, a beamformer's beamform
\* and hilbertAnalytic every array given to the call holds the same elements
\* in the same order as before, and every array returned is newly allocated.
C19_InputsNotMutated ==
  call.op = "effects" =>
    /\ \A ref \in call.inputs : call.after[ref] = call.before[ref]
    /\ \A ref \in call.results : ref \notin 1..Len(call.before) /\ ref \in 1..Len(call.after)

\* points given out of angle order were sorted on a copy: the copy is in
\* order, the caller's array is not
C19_Witness ==
  /\ call.op = "effects"
  /\ call.fn = "computePatternStats"
  /\ Length(call.before[1]) = 2
  /\ AngleBefore(call.before[1][1], call.before[1][0])
  /\ Len(call.after) > 1
  /\ AngleBefore(call.after[2][0], call.after[2][1])
  /\ call.after[1] = call.before[1]

(***************************************************************************)
(* defaultAngles(start, end, step), one iteration of its loop at a time.   *)
(* The memory of the process holds a list of MaxSweep entries: the push    *)
(* that would make the list longer fails, and the call ends without a      *)
(* result.  Every sweep of the inputs below that has a positive step fits. *)
(***************************************************************************)
MaxSweep == 7

\* 1e-9
SweepTol == Tiny(2000)

\* Number(a.toFixed(6)): a rounded to six decimals, halves away from zero
toFixed6(a) ==
  IF ~IsFin(a) THEN a
  ELSE Fin(RNorm(RSign(a.r) * ((2 * IAbs(a.r[1]) * 1000000 + a.r[2]) \div (2 * a.r[2])),
                1000000))

\* what --angles gives: numbers, and NaN for a part that is not a number
SweepStarts == {Int2Num(-1), Int2Num(0), NaN}
SweepEnds == {Int2Num(0), Int2Num(1)}
SweepSteps == {Fin(<<1, 3>>), Int2Num(1), Int2Num(0), Int2Num(-1), NaN, PInf}

\* a <= end + 1e-9
SweepGoesOn(c) == NLe(c.a, NAdd(c.end, SweepTol))

\* const v = []; let a = start
CallDefaultAngles ==
  /\ call = NoCall
  /\ pc = "idle"
  /\ \E start \in SweepStarts, end \in SweepEnds, step \in SweepSteps :
       call' = [op |-> "defaultAngles", start |-> start, end |-> end, step |-> step,
                a |-> start, v |-> <<>>, returned |-> FALSE, failed |-> FALSE]
  /\ UNCHANGED frameVars

\* v.push(Number(a.toFixed(6))); a += step
DefaultAnglesLoop ==
  /\ call.op = "defaultAngles"
  /\ ~call.returned /\ ~call.failed
  /\ SweepGoesOn(call)
  /\ Len(call.v) < MaxSweep
  /\ call' = [call EXCEPT !.v = Append(@, toFixed6(call.a)), !.a = NAdd(@, call.step)]
  /\ UNCHANGED frameVars

\* return v
DefaultAnglesReturn ==
  /\ call.op = "defaultAngles"
  /\ ~call.returned /\ ~call.failed
  /\ ~SweepGoesOn(call)
  /\ call' = [call EXCEPT !.returned = TRUE]
  /\ UNCHANGED frameVars

\* v.push(...) when no memory is left for one more entry
DefaultAnglesExhaust ==
  /\ call.op = "defaultAngles"
  /\ ~call.returned /\ ~call.failed
  /\ SweepGoesOn(call)
  /\ Len(call.v) = MaxSweep
  /\ call' = [call EXCEPT !.failed = TRUE]
  /\ UNCHANGED frameVars

NextAngles ==
  CallDefaultAngles \/ DefaultAnglesLoop \/ DefaultAnglesReturn \/ DefaultAnglesExhaust

SpecAngles == Init /\ [][NextAngles]_vars

\* a loop that can take its next iteration, or return, does
SpecAnglesFair ==
  /\ SpecAngles
  /\ WF_vars(DefaultAnglesLoop)
  /\ WF_vars(DefaultAnglesReturn)
  /\ WF_vars(DefaultAnglesExhaust)

AnglesCalled == call.op = "defaultAngles"
AnglesReturned == call.op = "defaultAngles" /\ call.returned

\* for step > 0 and start <= end the list has
\* floor((end - start + 1e-9) / step) + 1 entries beginning at start
SweepCount ==
  (/\ AnglesReturned
   /\ NGt(call.step, Int2Num(0)) /\ IsFin(call.step)
   /\ NLe(call.start, call.end)) =>
    /\ Int2Num(Len(call.v)) =
         NAdd(MathFloor(NDiv(NAdd(NSub(call.end, call.start), SweepTol), call.step)),
              Int2Num(1))
    /\ call.v[1] = call.start

\* C28: defaultAngles(start, end, step) terminates and returns a finite
\* list for every numeric start, end and step, including step = 0,
\* negative step and the values the CLI passes from --angles; for
\* step > 0 and start <= end the list has floor((end - start)/step +
\* tolerance) + 1 entries beginning at start.
C28_SweepTerminates ==
  /\ [](AnglesCalled => ~call.failed)
  /\ AnglesCalled ~> AnglesReturned
  /\ []SweepCount

\* the sweeps whose step is positive, or is NaN, return
PositiveStepTerminates ==
  (AnglesCalled /\ (NGt(call.step, Int2Num(0)) \/ IsNaN(call.step))) ~> AnglesReturned

(***************************************************************************)
(* The dynamic beamformer page.  Every step is one task of the event loop: *)
(* a click, an animation frame, a change of a setting (with the render     *)
(* and the effect that follow it), or a timer.  Timers of delay 0 fire in  *)
(* the order they were set.  A call of generateOnce is the generateOnce of *)
(* one render: it sees the settings of that render.                        *)
(***************************************************************************)
MaxRequests == 3

SettingsChoices == {PageSettings(1, 2), PageSettings(1, 1), PageSettings(0, 1)}

\* cfg of a render, in units of the time step, with a range of 30 degrees
\* and two scan lines of one sample
PageConfig(s) ==
  MakeConfig(Int2Num(s.dtUs), Int2Num(1), 2, "phased", <<Int2Num(-30), Int2Num(30)>>,
             1, s.elements, Int2Num(1))

\* runFrame(cfg, gen, bf) with the delay-and-sum beamformer throws
RunThrows(s) ==
  \E i \in 0..1 : DelayAndSumBeamform(ZeroMatrix(1, s.elements), i, PageConfig(s)).threw

\* the settings with which the run throws
ThrowingSettings == {s \in SettingsChoices : RunThrows(s)}

\* the frame computed from the settings s
FrameOf(s) == <<[settings |-> s]>>

\* a request: a click on "Run simulation" or a tick of auto-run
Requested(p, s) == [p EXCEPT !.requests = @ + 1, !.lastRequested = <<s>>]

\* a generateOnce that starts a run whether or not one is in progress
generateOnceUnguarded(p, s) ==
  [p EXCEPT !.runningRef = TRUE,
            !.tasks = Append(@, [kind |-> "resume", closure |-> s]),
            !.coalesced = 0]

\* generateOnce of the render with settings s, up to its await
generateOnce(p, s) ==
  IF p.runningRef
  THEN [p EXCEPT !.queuedRef = TRUE, !.coalesced = @ + 1]
  ELSE [p EXCEPT !.runningRef = TRUE,
                 !.tasks = Append(@, [kind |-> "resume", closure |-> s]),
                 !.coalesced = 0]

\* the finally block: the follow-up is the generateOnce of the same render
FinallyBlock(p, s, threw) ==
  [p EXCEPT !.runningRef = FALSE,
            !.queuedRef = FALSE,
            !.tasks = IF p.queuedRef THEN Append(@, [kind |-> "followUp", closure |-> s])
                      ELSE @,
            !.finished = <<[closure |-> s, threw |-> threw, coalesced |-> p.coalesced,
                            scheduled |-> IF p.queuedRef THEN 1 ELSE 0]>>]

\* generateOnce from its await on: runFrame, setFrame, finally
ResumeOnce(p, s, threw) ==
  FinallyBlock(IF threw THEN p ELSE [p EXCEPT !.frame = FrameOf(s)], s, threw)

WithoutFirstTask(p) == [p EXCEPT !.tasks = Tail(@)]

pageVars == <<call, pc, frame, heap, trace>>

\* onClick of "Run simulation", shown when auto-run is off
run ==
  /\ ~page.autoRun
  /\ page.requests < MaxRequests
  /\ page' = generateOnce(Requested(page, page.settings), page.settings)
  /\ UNCHANGED pageVars

\* tick of the auto-run effect: the effect is set up again at every change
\* of a setting, so the generateOnce it calls is that of the last render
tick ==
  /\ page.autoRun
  /\ page.requests < MaxRequests
  /\ page' = generateOnce(Requested(page, page.settings), page.settings)
  /\ UNCHANGED pageVars

\* onClick of "Auto Run" and of "Stop"
setAutoRun ==
  /\ page' = [page EXCEPT !.autoRun = ~@]
  /\ UNCHANGED pageVars

\* a setter of one of the settings, and the render that follows
ChangeSettings ==
  /\ \E s \in SettingsChoices \ {page.settings} : page' = [page EXCEPT !.settings = s]
  /\ UNCHANGED pageVars

\* the timer of `await new Promise(r => setTimeout(r, 0))`
ResumeRun ==
  /\ page.tasks # <<>>
  /\ Head(page.tasks).kind = "resume"
  /\ \E s \in {Head(page.tasks).closure} :
       page' = ResumeOnce(WithoutFirstTask(page), s, s \in ThrowingSettings)
  /\ UNCHANGED pageVars

\* the timer of `setTimeout(() => generateOnce(), 0)`
FollowUp ==
  /\ page.tasks # <<>>
  /\ Head(page.tasks).kind = "followUp"
  /\ page' = generateOnce(WithoutFirstTask(page), Head(page.tasks).closure)
  /\ UNCHANGED pageVars

NextPage == run \/ tick \/ setAutoRun \/ ChangeSettings \/ ResumeRun \/ FollowUp

SpecPage == Init /\ [][NextPage]_vars

\* a timer that has been set fires
SpecPageFair == SpecPage /\ WF_vars(ResumeRun) /\ WF_vars(FollowUp)

\* the runs of generateOnce between `runningRef.current = true` and the end
\* of the finally block
RunsInProgress == {i \in DOMAIN page.tasks : page.tasks[i].kind = "resume"}

FollowUpsPending == {i \in DOMAIN page.tasks : page.tasks[i].kind = "followUp"}

OneRunAtATime ==
  /\ Cardinality(RunsInProgress) <= 1
  /\ page.runningRef <=> RunsInProgress # {}
  /\ page.queuedRef => page.runningRef

\* the requests that arrived during a run lead to one follow-up, set when
\* the run finishes
RequestsCoalesced ==
  /\ Cardinality(FollowUpsPending) <= 1
  /\ \A f \in {page.finished[i] : i \in DOMAIN page.finished} :
       f.scheduled = IF f.coalesced > 0 THEN 1 ELSE 0
  /\ page.queuedRef <=> (page.runningRef /\ page.coalesced > 0)

\* C26: generateOnce is never executing twice at once; any number of
\* requests arriving while a run is in progress are coalesced into exactly
\* one follow-up run scheduled after that run finishes; and once requests
\* stop, runningRef and queuedRef both return to false, also when the run
\* throws.
C26_SingleFlight ==
  /\ [](OneRunAtATime /\ RequestsCoalesced)
  /\ <>[](~page.runningRef /\ ~page.queuedRef /\ page.tasks = <<>>)

\* two requests were coalesced during a run that threw: one follow-up has
\* been set and both refs are false again
C26_Witness ==
  /\ page.finished # <<>>
  /\ \E i \in DOMAIN page.finished :
       /\ page.finished[i].threw
       /\ page.finished[i].coalesced = 2
       /\ page.finished[i].scheduled = 1
  /\ Cardinality(FollowUpsPending) = 1
  /\ ~page.runningRef /\ ~page.queuedRef

\* no run is in progress and no timer is set
Quiescent == ~page.runningRef /\ page.tasks = <<>>

\* C27: when a run is requested with settings C while an earlier run
\* started with different settings is still in progress, the queued
\* follow-up run uses the settings current at the latest request, and the
\* last frame passed to setFrame after all requests stop was computed from
\* the latest requested settings.
C27_LatestSettingsShown ==
  /\ [][ResumeRun => \A i \in DOMAIN page'.tasks :
                       page'.tasks[i].kind = "followUp"
                         => page'.tasks[i].closure = page.lastRequested[1]]_vars
  /\ []((Quiescent /\ page.lastRequested # <<>>
           /\ page.lastRequested[1] \notin ThrowingSettings)
          => page.frame = FrameOf(page.lastRequested[1]))

Next ==
  \/ NextPage
  \/ NextAngles
  \/ NextBeamform
  \/ NextInterpolation
  \/ NextGeometry
  \/ NextWindow
  \/ NextFrame
  \/ NextDelays
  \/ NextPattern
  \/ NextStats
  \/ NextCsv
  \/ NextEffects

Spec == Init /\ [][Next]_vars
====
